---- MODULE Spec2Model ----
(***************************************************************************)
(* Model of the pipeline engine: the BasicEngine supervisor (executeJob),  *)
(* CancelJob, the in-memory job store, the StreamingTracker, the engine's  *)
(* streamJob goroutine and the HTTP handler's per-job event log.           *)
(*                                                                         *)
(* One job is followed from RunJob to its end.  Every goroutine is a       *)
(* process with a program counter; an action is one atomic section of its  *)
(* code: a store operation (the store's mutex), a read of the job's        *)
(* cancellation signal, a read of the clock, or an event-log operation     *)
(* (the handler's eventMu), together with the local computation after it.  *)
(***************************************************************************)
EXTENDS Integers, Sequences, FiniteSets, TLC

VARIABLES
    pipeline,      \* the PipelineDef captured for the job (jobPipeline cache)
    pipelines,     \* BasicEngine.pipelines[type]: the registered PipelineDef
    nSources,      \* len(job.Input.Sources)
    createMode,    \* "async": POST /v1/jobs, "stream": POST /v1/jobs?stream=true,
                   \* "sync": RunJob with mode = "sync"
    rerun,         \* the rerun request the job was created by, and its parent
    store,         \* MemoryStore.jobs[id]: the stored job record
    checkpoints,   \* MemoryStore.checkpoints[id]: step id -> items
    ctxCancelled,  \* the job's context (jobCtx) has been cancelled
    cancels,       \* BasicEngine.cancels holds the job's cancel handle
    clock,         \* time.Now()
    sup,           \* the supervisor goroutine (executeJob)
    canc,          \* the CancelJob callers
    eventSeq,      \* Handler.eventSeq[id]
    eventLogs,     \* Handler.eventLogs[id]
    sj,            \* the engine's streamJob goroutine of a streaming create
    cj,            \* the createJob handler of a streaming create
    cjOut,         \* the events the client of the streaming create received
    disconnected,  \* that client has closed the connection
    gh,            \* the GET /v1/jobs/{id}/stream handlers
    heap,          \* the objects behind pointers, slices and maps, by address
    jobs,          \* MemoryStore.jobs: job id -> the stored Job
    jobCheckpoints,\* MemoryStore.checkpoints: job id -> step id -> items
    profiles,      \* ProviderRegistry.profiles: profile id -> ProviderProfile
    caller         \* a client of the store and of the registry: the objects
                   \* it holds and the outcome of its last operation

memVars == <<heap, jobs, jobCheckpoints, profiles, caller>>
engineVars == <<pipeline, pipelines, nSources, createMode, memVars, rerun, store, checkpoints,
                ctxCancelled, cancels, clock, sup, canc>>
streamVars == <<eventSeq, eventLogs, sj, cj, cjOut, disconnected, gh>>
vars == <<engineVars, streamVars>>

----------------------------------------------------------------------------
(* Bounds *)

MaxClock == 14      \* the clock stops advancing here
MaxChunks == 1      \* chunks returned by one provider call
MaxSources == 2     \* input sources of the job
MaxGrowth == 2      \* chunks of a step and result items in the snapshots fed to a tracker
MaxReruns == 2      \* reruns in a chain: a job, its rerun, the rerun of that

----------------------------------------------------------------------------
(* Domain types, internal/engine/types.go *)

NoTime == 0
NoError == [code |-> "", message |-> ""]

JobStatusQueued == "queued"
JobStatusRunning == "running"
JobStatusSucceeded == "succeeded"
JobStatusFailed == "failed"
JobStatusCancelled == "cancelled"

StepExecPending == "pending"
StepExecRunning == "running"
StepExecSuccess == "success"
StepExecFailed == "failed"
StepExecSkipped == "skipped"
StepExecCancelled == "cancelled"

StepModeSingle == "single"
StepModeFanOut == "fanout"
StepModePerItem == "per_item"

NoJob == [status |-> "none", error |-> NoError, steps |-> <<>>,
          items |-> <<>>, updated_at |-> NoTime]

ContentText == "text"

\* a StepDef; OutputType is left empty by the definitions given here
StepDef(id, mode, deps, export, profile) ==
    [id |-> id, mode |-> mode, deps |-> deps, export |-> export,
     profile |-> profile, output |-> ""]

\* defaultPipeline: one single LLM step of output type text, exported,
\* without a provider profile
defaultPipeline ==
    << [StepDef("step-1", StepModeSingle, <<>>, TRUE, "") EXCEPT !.output = ContentText] >>

\* pipelineForType: the registered definition of the type (the set holds it,
\* and is empty when the type is not registered), else defaultPipeline
pipelineForType(registered) ==
    IF registered = {} THEN defaultPipeline ELSE CHOOSE def \in registered : TRUE

\* ensureContentType: text when the step names no output type
ensureContentType(ct) == IF ct = "" THEN ContentText ELSE ct

NewStepExecution(id) ==
    [step_id |-> id, status |-> StepExecPending, started_at |-> NoTime,
     finished_at |-> NoTime, error |-> NoError, chunks |-> <<>>]

\* RunJob: one pending step execution per step of the definition, and the
\* one of "step-1" when the definition has no steps
newStepExecutions(steps) ==
    IF Len(steps) = 0 THEN << NewStepExecution("step-1") >>
    ELSE [i \in 1..Len(steps) |-> NewStepExecution(steps[i].id)]

\* The pipelines a job is run with.
Pipelines == {
    \* what defaultPipeline gives: one single step without a provider profile
    << StepDef("step-1", StepModeSingle, <<>>, TRUE, "") >>,
    \* fan-out over the sources, then a single step over the merged outputs
    << StepDef("A", StepModeFanOut, <<>>, TRUE, "default-local"),
       StepDef("B", StepModeSingle, <<"A">>, TRUE, "default-openai") >>,
    \* a step whose profile id is not in the registry, then an LLM step
    << StepDef("A", StepModeSingle, <<>>, TRUE, "ghost"),
       StepDef("B", StepModePerItem, <<"A">>, FALSE, "default-openai") >>,
    \* a dependency on a step that is not part of the pipeline
    << StepDef("A", StepModeSingle, <<>>, FALSE, "default-openai"),
       StepDef("B", StepModeSingle, <<"C">>, TRUE, "default-local") >> }

----------------------------------------------------------------------------
(* Provider registry, provider.go *)

\* defaultProviderProfiles: profile id -> kind
DefaultProfiles ==
    [p \in {"default-openai", "default-ollama", "default-image", "default-local"} |->
        CASE p = "default-openai" -> "openai"
          [] p = "default-ollama" -> "ollama"
          [] p = "default-image"  -> "image"
          [] OTHER                -> "local_tool"]

\* ProviderRegistry.Resolve: the kind of the provider, or the error
Resolve(step) ==
    IF step.profile = "" THEN [err |-> "provider_profile_id is required for this step", kind |-> ""]
    ELSE IF step.profile \notin DOMAIN DefaultProfiles
         THEN [err |-> "provider profile not found", kind |-> ""]
         ELSE [err |-> "", kind |-> DefaultProfiles[step.profile]]

\* BasicEngine.resolveProvider: a Resolve error gives the nil provider
resolveProvider(step) ==
    IF Resolve(step).err # "" THEN "nil" ELSE Resolve(step).kind

\* What one provider call returns, given the state of the job's context when
\* it returns.  The nil provider is never called (callProvider returns the
\* empty response); the image and local-tool providers look at the context
\* and answer at once; the HTTP providers may fail, and fail with the
\* context's error once it is cancelled.
callProvider(provider, cancelled) ==
    CASE provider = "nil" -> {[err |-> "", chunks |-> 0]}
      [] provider \in {"image", "local_tool"} ->
            IF cancelled THEN {[err |-> "canceled", chunks |-> 0]}
                         ELSE {[err |-> "", chunks |-> 0]}
      [] OTHER ->
            {[err |-> "", chunks |-> c] : c \in 0..MaxChunks}
            \cup {[err |-> "other", chunks |-> 0]}
            \cup (IF cancelled THEN {[err |-> "canceled", chunks |-> 0]} ELSE {})

----------------------------------------------------------------------------
(* Helpers of engine.go *)

isTerminal(status) ==
    status \in {JobStatusSucceeded, JobStatusFailed, JobStatusCancelled}

\* time.Now(): the clock advances with every reading until MaxClock
Tick(t) == IF t < MaxClock THEN t + 1 ELSE t

RECURSIVE findStepIndexFrom(_, _, _)
findStepIndexFrom(steps, id, i) ==
    IF i > Len(steps) THEN 0
    ELSE IF steps[i].id = id THEN i
    ELSE findStepIndexFrom(steps, id, i + 1)

\* findStepIndex, 1-based; 0 stands for the code's -1
findStepIndex(steps, id) == findStepIndexFrom(steps, id, 1)

\* a check that accepts every step
ensureNothing(step, outputs) == TRUE

\* ensureDependencies: TRUE when every depends_on id has outputs
ensureDependencies(step, outputs) ==
    \A k \in 1..Len(step.deps) : step.deps[k] \in DOMAIN outputs

\* a failStep that records a step stopped by its context as cancelled
failStepOrCancel(job, idx, code, message, now) ==
    IF idx < 1 \/ idx > Len(job.steps) THEN job
    ELSE [job EXCEPT
            !.steps[idx].status = IF code = "cancelled" THEN StepExecCancelled
                                  ELSE StepExecFailed,
            !.steps[idx].finished_at = now,
            !.steps[idx].error = [code |-> code, message |-> message],
            !.status = IF code = "cancelled" THEN JobStatusCancelled
                       ELSE JobStatusFailed,
            !.error = [code |-> code, message |-> message],
            !.updated_at = now]

\* failStep, the part before its store write
failStep(job, idx, code, message, now) ==
    IF idx < 1 \/ idx > Len(job.steps) THEN job
    ELSE [job EXCEPT
            !.steps[idx].status = StepExecFailed,
            !.steps[idx].finished_at = now,
            !.steps[idx].error = [code |-> code, message |-> message],
            !.status = JobStatusFailed,
            !.error = [code |-> code, message |-> message],
            !.updated_at = now]

\* the code executeJob passes to failStep for a provider error
ErrorCode(err) == IF err = "canceled" THEN "cancelled" ELSE "step_failed"

\* recordChunks, the part before its store write
RECURSIVE appendChunks(_, _, _)
appendChunks(chunks, stepID, n) ==
    IF n = 0 THEN chunks
    ELSE appendChunks(Append(chunks, [step_id |-> stepID, index |-> Len(chunks)]),
                      stepID, n - 1)

\* a recordChunks that numbers the chunks of every provider call from 0
recordChunksPerCall(job, idx, n, now) ==
    IF n = 0 \/ idx < 1 \/ idx > Len(job.steps) THEN job
    ELSE [job EXCEPT
            !.steps[idx].chunks = @ \o appendChunks(<<>>, job.steps[idx].step_id, n),
            !.updated_at = now]

recordChunks(job, idx, n, now) ==
    IF n = 0 \/ idx < 1 \/ idx > Len(job.steps) THEN job
    ELSE [job EXCEPT
            !.steps[idx].chunks = appendChunks(@, job.steps[idx].step_id, n),
            !.updated_at = now]

\* generateID gives every job and every item an id of its own: jobs are
\* numbered in the order of their creation, and an item is named after its
\* job, its step and its position among the step's items
JobIDOf(gen) == gen + 1

\* buildSingleResult, buildFanOutResult, buildPerItemResult: the item of the
\* i-th provider call (0-based) of a step; shard is <<>> for a nil ShardKey
buildSingleResult(jid, step) ==
    [id |-> <<jid, step.id, 0>>, step_id |-> step.id, shard |-> <<>>,
     content_type |-> ensureContentType(step.output)]

buildFanOutResult(jid, step, i) ==
    [id |-> <<jid, step.id, i>>, step_id |-> step.id, shard |-> <<step.id, i>>,
     content_type |-> ensureContentType(step.output)]

buildPerItemResult(jid, step, prev, i) ==
    [id |-> <<jid, step.id, i>>, step_id |-> step.id,
     shard |-> IF prev.shard # <<>> THEN prev.shard ELSE <<step.id, i>>,
     content_type |-> ensureContentType(step.output)]

\* runStep's dispatch: the mode the step is run in and the items it consumes
PerItemBase(step, outputs) ==
    IF Len(step.deps) > 0 /\ step.deps[Len(step.deps)] \in DOMAIN outputs
    THEN outputs[step.deps[Len(step.deps)]]
    ELSE <<>>

\* a dispatch in which fan-out stays fan-out without sources
EffectiveModeOfStep(step, outputs, n) ==
    CASE step.mode = StepModeFanOut -> StepModeFanOut
      [] step.mode = StepModePerItem ->
            IF Len(PerItemBase(step, outputs)) = 0
            THEN (IF n = 0 THEN StepModeSingle ELSE StepModeFanOut)
            ELSE StepModePerItem
      [] OTHER -> StepModeSingle

EffectiveMode(step, outputs, n) ==
    CASE step.mode = StepModeFanOut ->
            IF n = 0 THEN StepModeSingle ELSE StepModeFanOut
      [] step.mode = StepModePerItem ->
            IF Len(PerItemBase(step, outputs)) = 0
            THEN (IF n = 0 THEN StepModeSingle ELSE StepModeFanOut)
            ELSE StepModePerItem
      [] OTHER -> StepModeSingle

\* the number of provider calls the step makes
CallCount(step, outputs, n) ==
    CASE EffectiveMode(step, outputs, n) = StepModeFanOut -> n
      [] EffectiveMode(step, outputs, n) = StepModePerItem ->
            Len(PerItemBase(step, outputs))
      [] OTHER -> 1

\* the item built after the i-th call (0-based)
BuildItem(jid, step, outputs, n, i) ==
    CASE EffectiveMode(step, outputs, n) = StepModeFanOut ->
            buildFanOutResult(jid, step, i)
      [] EffectiveMode(step, outputs, n) = StepModePerItem ->
            buildPerItemResult(jid, step, PerItemBase(step, outputs)[i + 1], i)
      [] OTHER -> buildSingleResult(jid, step)

\* appendExportedResults: job.Result.Items = append(job.Result.Items, items...)
appendExportedResults(job, items) ==
    IF Len(items) = 0 THEN job ELSE [job EXCEPT !.items = @ \o items]

\* findStartIndex: the number of steps before the step named by
\* job.RerunFromStep ("" stands for nil), 0 when there is no such step
findStartIndex(steps, from) ==
    IF from = "" \/ findStepIndex(steps, from) = 0 THEN 0
    ELSE findStepIndex(steps, from) - 1

RECURSIVE reuseSteps(_, _, _, _, _)
\* executeJob, the loop over the steps before startIndex: a step the parent
\* has a checkpoint of gets that checkpoint as its outputs, becomes skipped
\* and, when exported, adds the items to the result.  r is the pair of the
\* job and the outputs so far.
reuseSteps(r, steps, reused, startIndex, i) ==
    IF i > startIndex \/ i > Len(steps) THEN r
    ELSE IF steps[i].id \in DOMAIN reused
    THEN LET items == reused[steps[i].id]
             skipped == [r.job EXCEPT !.steps[i].status = StepExecSkipped]
         IN reuseSteps(
                [job |-> IF steps[i].export THEN appendExportedResults(skipped, items)
                         ELSE skipped,
                 outputs |-> [s \in DOMAIN r.outputs \cup {steps[i].id} |->
                                 IF s = steps[i].id THEN items ELSE r.outputs[s]]],
                steps, reused, startIndex, i + 1)
    ELSE reuseSteps(r, steps, reused, startIndex, i + 1)

\* executeJob: stepOutputs and the job after the reuse of the parent's
\* checkpoints, which takes place if job.ReuseUpstream && job.ParentJobID !=
\* nil and the parent has checkpoints
reuseUpstream(job, steps, rr) ==
    IF rr.reuse /\ rr.gen > 0 /\ DOMAIN rr.parent # {}
    THEN reuseSteps([job |-> job, outputs |-> <<>>], steps, rr.parent,
                    findStartIndex(steps, rr.from), 1)
    ELSE [job |-> job, outputs |-> <<>>]

\* an append that does not look at step.Export
appendResultsForStep(job, step, items) ==
    IF Len(items) = 0 THEN job
    ELSE [job EXCEPT !.items = @ \o items]

\* appendExportedResultsForStep
appendExportedResultsForStep(job, step, items) ==
    IF ~step.export \/ Len(items) = 0 THEN job
    ELSE [job EXCEPT !.items = @ \o items]

\* saveCheckpoint / MemoryStore.SaveCheckpoint
SaveCheckpoint(cps, stepID, items) ==
    IF Len(items) = 0 THEN cps
    ELSE [s \in DOMAIN cps \cup {stepID} |->
            IF s = stepID THEN items ELSE cps[s]]

----------------------------------------------------------------------------
(* StreamingTracker, streaming_tracker.go *)

StepIDs == {"step-1", "A", "B"}

\* a StreamingEvent: its name, its seq (0 until the handler stamps it) and
\* what identifies its Data: the job status, the step id, the chunk index or
\* the position of the item in result.items
Event(name, status, step, n) ==
    [event |-> name, seq |-> 0, status |-> status, step |-> step, n |-> n]

JobEvent(name, job) == Event(name, job.status, "", 0)

\* NewStreamingTracker
NewStreamingTracker ==
    [lastStatus |-> "", stepStatus |-> [s \in StepIDs |-> ""],
     lastItemCount |-> 0, sentStarted |-> FALSE,
     chunkCount |-> [s \in StepIDs |-> 0]]

TerminalEventName(status) ==
    CASE status = JobStatusFailed -> "job_failed"
      [] status = JobStatusCancelled -> "job_cancelled"
      [] OTHER -> "job_completed"

\* Diff, the block on job.Status
DiffStatus(t, job) ==
    IF job.status # t.lastStatus
    THEN (IF job.status = JobStatusRunning /\ ~t.sentStarted
          THEN <<JobEvent("job_started", job)>> ELSE <<>>)
         \o <<JobEvent("job_status", job)>>
         \o (IF isTerminal(job.status)
             THEN <<JobEvent(TerminalEventName(job.status), job),
                    JobEvent("stream_finished", job)>>
             ELSE <<>>)
    ELSE <<>>

\* Diff, the body of the loop over job.StepExecutions for one step, given
\* the status and the chunk count the tracker remembers for its id
DiffStep(prev, seen, step) ==
    (IF step.status # prev
     THEN CASE step.status = StepExecRunning ->
                  <<Event("step_started", step.status, step.step_id, 0)>>
            [] step.status = StepExecSuccess ->
                  <<Event("step_completed", step.status, step.step_id, 0)>>
            [] step.status = StepExecFailed ->
                  <<Event("step_failed", step.status, step.step_id, 0)>>
            [] step.status = StepExecCancelled ->
                  <<Event("step_cancelled", step.status, step.step_id, 0)>>
            [] OTHER -> <<>>
     ELSE <<>>)
    \o (IF Len(step.chunks) > 0 /\ Len(step.chunks) > seen
        THEN [k \in 1..(Len(step.chunks) - seen) |->
                 Event("provider_chunk", "", step.step_id, step.chunks[seen + k].index)]
        ELSE <<>>)

RECURSIVE DiffSteps(_, _, _)
DiffSteps(t, steps, i) ==
    IF i > Len(steps) THEN <<>>
    ELSE DiffStep(t.stepStatus[steps[i].step_id], t.chunkCount[steps[i].step_id], steps[i])
         \o DiffSteps(t, steps, i + 1)

\* Diff, the block on job.Result.Items
DiffItems(t, job) ==
    IF Len(job.items) > t.lastItemCount
    THEN [k \in 1..(Len(job.items) - t.lastItemCount) |->
             Event("item_completed", "", job.items[t.lastItemCount + k].step_id,
                   t.lastItemCount + k - 1)]
    ELSE <<>>

\* Diff: the events returned
Diff(t, job) == DiffStatus(t, job) \o DiffSteps(t, job.steps, 1) \o DiffItems(t, job)

StepOf(job, id) == job.steps[CHOOSE i \in 1..Len(job.steps) : job.steps[i].step_id = id]
HasStep(job, id) == \E i \in 1..Len(job.steps) : job.steps[i].step_id = id

\* a tracker that does not note the chunks it has emitted
DiffTrackerChunksUnnoted(t, job) ==
    [lastStatus |-> job.status,
     sentStarted |-> t.sentStarted
                     \/ (job.status # t.lastStatus /\ job.status = JobStatusRunning),
     stepStatus |-> [s \in StepIDs |->
                       IF HasStep(job, s) THEN StepOf(job, s).status
                       ELSE t.stepStatus[s]],
     chunkCount |-> t.chunkCount,
     lastItemCount |-> Len(job.items)]

\* Diff: the tracker afterwards
DiffTracker(t, job) ==
    [lastStatus |-> job.status,
     sentStarted |-> t.sentStarted
                     \/ (job.status # t.lastStatus /\ job.status = JobStatusRunning),
     stepStatus |-> [s \in StepIDs |->
                       IF HasStep(job, s) THEN StepOf(job, s).status
                       ELSE t.stepStatus[s]],
     chunkCount |-> [s \in StepIDs |->
                       IF HasStep(job, s) /\ Len(StepOf(job, s).chunks) > t.chunkCount[s]
                       THEN Len(StepOf(job, s).chunks)
                       ELSE t.chunkCount[s]],
     lastItemCount |-> Len(job.items)]

----------------------------------------------------------------------------
(* The handler's event log, handlers.go *)

\* a stamping that reuses the last seq of the job
NextSeqReused(last) == IF last = 0 THEN 1 ELSE last

\* appendEvent: seq := h.eventSeq[evt.JobID] + 1
NextSeq(last) == last + 1

\* an appendEvent that logs the event as it came
StampUnnumbered(evt, last) == evt

\* appendEvent: the stamped event
Stamp(evt, last) == [evt EXCEPT !.seq = NextSeq(last)]

\* eventsAfter: the logged events with Seq > afterSeq, in log order
eventsAfter(log, afterSeq) == SelectSeq(log, LAMBDA e : e.seq > afterSeq)

\* hasEventLog
hasEventLog(last, log) == last > 0 \/ Len(log) > 0

----------------------------------------------------------------------------
(* RunJob *)

EmptyMap == [s \in {} |-> <<>>]

\* a JobRequest without parent_job_id, from_step_id and reuse_upstream; gen
\* counts the reruns that led to the job, parent is what LoadCheckpoints
\* gives for the parent job, parentJob the parent's stored record
NoRerun == [gen |-> 0, from |-> "", reuse |-> FALSE, parent |-> EmptyMap,
            parentJob |-> NoJob]

SupIdle == [pc |-> "idle", job |-> NoJob, idx |-> 0, outputs |-> EmptyMap,
            call |-> 0, items |-> <<>>, resp |-> [err |-> "", chunks |-> 0],
            code |-> "", message |-> "", ret |-> NoJob]

SjIdle == [pc |-> "idle", tracker |-> NewStreamingTracker, queue |-> <<>>,
           term |-> FALSE]

CjIdle == [pc |-> "idle", cur |-> Event("", "", "", 0)]

GhIdle == [pc |-> "idle", afterSeq |-> 0, lastSeq |-> 0,
           tracker |-> NewStreamingTracker, queue |-> <<>>, term |-> FALSE,
           sent |-> FALSE, out |-> <<>>, gone |-> FALSE]

CancIdle == [pc |-> "idle", job |-> NoJob, reason |-> "", now |-> NoTime,
             result |-> ""]

Reasons == {"", "user aborted"}

\* RunJob: build the queued job, store it, register the cancel handle and
\* start the supervisor: in its own goroutine, returning the queued job, or
\* inline when mode = "sync".  RunJobStream also starts streamJob, and
\* createJob goes on to its job_queued event.
RunJob ==
    /\ sup.pc = "idle"
    /\ store = NoJob
    /\ store' = [status |-> JobStatusQueued, error |-> NoError,
                 steps |-> newStepExecutions(pipeline),
                 items |-> <<>>, updated_at |-> clock]
    /\ clock' = Tick(clock)
    /\ cancels' = TRUE
    /\ sup' = [sup EXCEPT !.pc = "get",
                          !.ret = IF createMode = "sync" THEN NoJob ELSE store']
    /\ IF createMode = "stream"
       THEN /\ sj' = [sj EXCEPT !.pc = "poll"]
            /\ cj' = [cj EXCEPT !.pc = "queued"]
       ELSE UNCHANGED <<sj, cj>>
    /\ UNCHANGED <<pipeline, pipelines, nSources, createMode, memVars, rerun, checkpoints, ctxCancelled, canc,
                   eventSeq, eventLogs, cjOut, disconnected, gh>>

\* rerunJob: POST /v1/jobs/{id}/rerun for the job, here once it has succeeded,
\* with from_step_id naming a step of the pipeline (RunJob refuses any other)
\* or absent, and reuse_upstream.  RunJob creates the new job with
\* parent_job_id = id under an id of its own, with a context and a cancel
\* handle of its own, and starts its supervisor; the handler and the
\* supervisor of the parent have returned.
Rerun ==
    /\ sup.pc = "done"
    /\ store.status = JobStatusSucceeded
    /\ rerun.gen < MaxReruns
    /\ \A c \in DOMAIN canc : canc[c].pc \in {"idle", "done"}
    /\ pipeline' = pipelines
    /\ \E from \in {pipelines[i].id : i \in 1..Len(pipelines)} \cup {""},
          reuse \in BOOLEAN :
          rerun' = [gen |-> rerun.gen + 1, from |-> from, reuse |-> reuse,
                    parent |-> checkpoints, parentJob |-> store]
    /\ store' = [status |-> JobStatusQueued, error |-> NoError,
                 steps |-> newStepExecutions(pipelines),
                 items |-> <<>>, updated_at |-> clock]
    /\ checkpoints' = EmptyMap
    /\ clock' = Tick(clock)
    /\ cancels' = TRUE
    /\ ctxCancelled' = FALSE
    /\ sup' = [SupIdle EXCEPT !.pc = "get",
                              !.ret = IF createMode = "sync" THEN NoJob ELSE store']
    /\ UNCHANGED <<pipelines, nSources, createMode, memVars, canc, streamVars>>

\* the definitions RegisterPipeline puts in the place of the job's
ReplacementPipelines == {
    << StepDef("B", StepModeSingle, <<>>, TRUE, "default-local") >>,
    << StepDef("step-1", StepModeSingle, <<>>, TRUE, "default-local"),
       StepDef("A", StepModeSingle, <<"step-1">>, TRUE, "default-local"),
       StepDef("B", StepModeSingle, <<"A">>, FALSE, "default-local") >> }

\* RegisterPipeline replaces the definition of the job's pipeline type once
\* the job has been created, while it is queued or running
RegisterPipeline ==
    /\ store # NoJob
    /\ sup.pc # "done"
    /\ pipelines = pipeline
    /\ pipelines' \in ReplacementPipelines
    /\ UNCHANGED <<pipeline, nSources, createMode, memVars, rerun, store, checkpoints,
                   ctxCancelled, cancels, clock, sup, canc, streamVars>>

----------------------------------------------------------------------------
(* executeJob, the supervisor goroutine *)

\* an executeJob that takes the definition from the registry
\* (pipelineForType), as it does for a job without a cached definition
loadRegisteredPipeline(cached, registered) == registered

\* loadJobPipeline: the definition RunJob cached for the job
loadJobPipeline(cached, registered) == cached

\* an executeJob that runs the definition as it is, steps or none
stepsAsGiven(steps) == steps

\* executeJob: a definition without steps gets the one step "step-1"
stepsOrDefault(steps) ==
    IF Len(steps) = 0
    THEN << [StepDef("step-1", StepModeSingle, <<>>, TRUE, "") EXCEPT !.output = ContentText] >>
    ELSE steps

\* pipeline := e.loadJobPipeline(jobID), what executeJob works with
JobPipeline == stepsOrDefault(loadJobPipeline(pipeline, pipelines))

CurStep == JobPipeline[sup.idx]

\* executeJob: the step executions are made anew when their number is not
\* that of the steps of the definition
matchStepExecutions(job, steps) ==
    IF Len(job.steps) # Len(steps)
    THEN [job EXCEPT !.steps = [i \in 1..Len(steps) |-> NewStepExecution(steps[i].id)]]
    ELSE job

\* the deferred clearCancel and removeJobPipeline run when executeJob
\* returns, and then the deferred cancel() of the goroutine RunJob started;
\* with mode = "sync" RunJob goes on
SupReturn ==
    /\ sup' = [sup EXCEPT !.pc = IF createMode = "sync" THEN "final" ELSE "done"]
    /\ cancels' = FALSE
    /\ ctxCancelled' = (ctxCancelled \/ createMode # "sync")

\* RunJob with mode = "sync", after executeJob: cancel(), then
\* finalJob, err := e.store.GetJob(job.ID) is what it returns
RunJobSyncReturn ==
    /\ sup.pc = "final"
    /\ sup' = [sup EXCEPT !.pc = "done", !.ret = store]
    /\ ctxCancelled' = TRUE
    /\ UNCHANGED <<pipeline, pipelines, nSources, createMode, memVars, rerun, store, checkpoints,
                   cancels, clock, canc, streamVars>>

\* job, err := e.store.GetJob(jobID); the pipeline is the cached one
SupGet ==
    /\ sup.pc = "get"
    /\ LET r == reuseUpstream(matchStepExecutions(store, JobPipeline),
                              JobPipeline, rerun)
       IN sup' = [sup EXCEPT !.pc = "start_now", !.job = r.job,
                             !.outputs = r.outputs]
    /\ UNCHANGED <<pipeline, pipelines, nSources, createMode, memVars, rerun, store, checkpoints,
                   ctxCancelled, cancels, clock, canc, streamVars>>

\* now := time.Now(); job.Status = running; job.UpdatedAt = now
SupStartNow ==
    /\ sup.pc = "start_now"
    /\ sup' = [sup EXCEPT !.pc = "start_write",
                          !.job.status = JobStatusRunning,
                          !.job.updated_at = clock]
    /\ clock' = Tick(clock)
    /\ UNCHANGED <<pipeline, pipelines, nSources, createMode, memVars, rerun, store, checkpoints,
                   ctxCancelled, cancels, canc, streamVars>>

\* e.store.UpdateJob(job), then the first iteration of the step loop
SupStartWrite ==
    /\ sup.pc = "start_write"
    /\ store' = sup.job
    /\ sup' = [sup EXCEPT !.pc = "check", !.idx = 1]
    /\ UNCHANGED <<pipeline, pipelines, nSources, createMode, memVars, rerun, checkpoints,
                   ctxCancelled, cancels, clock, canc, streamVars>>

\* head of the step loop: the steps before startIndex are passed over when
\* job.ReuseUpstream; then the select on ctx.Done() and ensureDependencies
SupCheck ==
    /\ sup.pc = "check"
    /\ IF sup.idx > Len(JobPipeline)
       THEN /\ sup' = [sup EXCEPT !.pc = "finish_now"]
            /\ UNCHANGED <<cancels, ctxCancelled>>
       ELSE IF rerun.reuse /\ sup.idx <= findStartIndex(JobPipeline, rerun.from)
       THEN /\ sup' = [sup EXCEPT !.idx = @ + 1]
            /\ UNCHANGED <<cancels, ctxCancelled>>
       ELSE IF ctxCancelled
       THEN SupReturn
       ELSE IF ~ensureDependencies(CurStep, sup.outputs)
       THEN /\ sup' = [sup EXCEPT !.pc = "fail_now",
                                  !.code = "missing_dependency",
                                  !.message = "dependency not satisfied"]
            /\ UNCHANGED <<cancels, ctxCancelled>>
       ELSE /\ sup' = [sup EXCEPT !.pc = "begin_now"]
            /\ UNCHANGED <<cancels, ctxCancelled>>
    /\ UNCHANGED <<pipeline, pipelines, nSources, createMode, memVars, rerun, store, checkpoints,
                   clock, canc, streamVars>>

\* a step start that marks every step up to the current one running
SupBeginNowUpTo ==
    /\ sup.pc = "begin_now"
    /\ sup' = [sup EXCEPT !.pc = "run_write",
                          !.job.steps = [i \in 1..Len(@) |->
                                            IF i <= sup.idx
                                            THEN [@[i] EXCEPT !.status = StepExecRunning,
                                                              !.started_at = clock]
                                            ELSE @[i]]]
    /\ clock' = Tick(clock)
    /\ UNCHANGED <<pipeline, pipelines, nSources, createMode, memVars, rerun, store, checkpoints,
                   ctxCancelled, cancels, canc, streamVars>>

\* start := time.Now(); the step execution becomes running
SupBeginNow ==
    /\ sup.pc = "begin_now"
    /\ sup' = [sup EXCEPT !.pc = "run_write",
                          !.job.steps[sup.idx].status = StepExecRunning,
                          !.job.steps[sup.idx].started_at = clock]
    /\ clock' = Tick(clock)
    /\ UNCHANGED <<pipeline, pipelines, nSources, createMode, memVars, rerun, store, checkpoints,
                   ctxCancelled, cancels, canc, streamVars>>

\* e.store.UpdateJob(job) with the running step
SupRunWrite ==
    /\ sup.pc = "run_write"
    /\ store' = sup.job
    /\ sup' = [sup EXCEPT !.pc = "run_ctx"]
    /\ UNCHANGED <<pipeline, pipelines, nSources, createMode, memVars, rerun, checkpoints,
                   ctxCancelled, cancels, clock, canc, streamVars>>

\* runStep: the select on ctx.Done() before the sleep
SupRunCtx ==
    /\ sup.pc = "run_ctx"
    /\ IF ctxCancelled
       THEN sup' = [sup EXCEPT !.pc = "fail_now",
                               !.code = ErrorCode("canceled"),
                               !.message = "context canceled"]
       ELSE sup' = [sup EXCEPT !.pc = "call", !.call = 0, !.items = <<>>]
    /\ UNCHANGED <<pipeline, pipelines, nSources, createMode, memVars, rerun, store, checkpoints,
                   ctxCancelled, cancels, clock, canc, streamVars>>

\* after the call-th provider call: build its item and go on
AfterCall(s) ==
    LET item == BuildItem(JobIDOf(rerun.gen), CurStep, s.outputs, nSources, s.call)
        last == s.call + 1 >= CallCount(CurStep, s.outputs, nSources)
    IN [s EXCEPT !.items = Append(@, item),
                 !.call = @ + 1,
                 !.pc = IF last THEN "success_now" ELSE "call"]

\* one provider call of runSingleStep / runFanOutStep / runPerItemStep
SupCall ==
    /\ sup.pc = "call"
    /\ \E resp \in callProvider(resolveProvider(CurStep), ctxCancelled) :
          IF resp.err # ""
          THEN sup' = [sup EXCEPT !.pc = "fail_now", !.resp = resp,
                                  !.code = ErrorCode(resp.err),
                                  !.message = resp.err]
          ELSE IF resp.chunks > 0
          THEN sup' = [sup EXCEPT !.pc = "record_now", !.resp = resp]
          ELSE sup' = AfterCall(sup)
    /\ UNCHANGED <<pipeline, pipelines, nSources, createMode, memVars, rerun, store, checkpoints,
                   ctxCancelled, cancels, clock, canc, streamVars>>

\* recordChunks: append the chunks, job.UpdatedAt = time.Now()
SupRecordNow ==
    /\ sup.pc = "record_now"
    /\ sup' = [sup EXCEPT !.pc = "chunk_write",
                          !.job = recordChunks(@, sup.idx, sup.resp.chunks, clock)]
    /\ clock' = Tick(clock)
    /\ UNCHANGED <<pipeline, pipelines, nSources, createMode, memVars, rerun, store, checkpoints,
                   ctxCancelled, cancels, canc, streamVars>>

\* recordChunks: _ = e.store.UpdateJob(job)
SupChunkWrite ==
    /\ sup.pc = "chunk_write"
    /\ store' = sup.job
    /\ sup' = AfterCall(sup)
    /\ UNCHANGED <<pipeline, pipelines, nSources, createMode, memVars, rerun, checkpoints,
                   ctxCancelled, cancels, clock, canc, streamVars>>

\* failStep: finish := time.Now() and the changes to the job
SupFailNow ==
    /\ sup.pc = "fail_now"
    /\ sup' = [sup EXCEPT !.pc = "fail_write",
                          !.job = failStep(@, sup.idx, sup.code, sup.message, clock)]
    /\ clock' = Tick(clock)
    /\ UNCHANGED <<pipeline, pipelines, nSources, createMode, memVars, rerun, store, checkpoints,
                   ctxCancelled, cancels, canc, streamVars>>

\* failStep: _ = e.store.UpdateJob(job); executeJob returns
SupFailWrite ==
    /\ sup.pc = "fail_write"
    /\ store' = sup.job
    /\ SupReturn
    /\ UNCHANGED <<pipeline, pipelines, nSources, createMode, memVars, rerun, checkpoints,
                   clock, canc, streamVars>>

\* a step loop that goes on to the next step without the status success
SupSuccessNowUnmarked ==
    /\ sup.pc = "success_now"
    /\ sup' = [sup EXCEPT
                 !.pc = "success_write",
                 !.job = appendExportedResultsForStep(
                            [@ EXCEPT !.steps[sup.idx].finished_at = clock,
                                      !.steps[sup.idx].error = NoError,
                                      !.updated_at = clock],
                            CurStep, sup.items),
                 !.outputs = [s \in DOMAIN sup.outputs \cup {CurStep.id} |->
                                 IF s = CurStep.id THEN sup.items ELSE sup.outputs[s]]]
    /\ checkpoints' = SaveCheckpoint(checkpoints, CurStep.id, sup.items)
    /\ clock' = Tick(clock)
    /\ UNCHANGED <<pipeline, pipelines, nSources, createMode, memVars, rerun, store, ctxCancelled, cancels, canc, streamVars>>

\* the step succeeded: finish := time.Now(), the step becomes success, its
\* items become outputs, a checkpoint and (when exported) result items
SupSuccessNow ==
    /\ sup.pc = "success_now"
    /\ sup' = [sup EXCEPT
                 !.pc = "success_write",
                 !.job = appendExportedResultsForStep(
                            [@ EXCEPT !.steps[sup.idx].status = StepExecSuccess,
                                      !.steps[sup.idx].finished_at = clock,
                                      !.steps[sup.idx].error = NoError,
                                      !.updated_at = clock],
                            CurStep, sup.items),
                 !.outputs = [s \in DOMAIN sup.outputs \cup {CurStep.id} |->
                                 IF s = CurStep.id THEN sup.items ELSE sup.outputs[s]]]
    /\ checkpoints' = SaveCheckpoint(checkpoints, CurStep.id, sup.items)
    /\ clock' = Tick(clock)
    /\ UNCHANGED <<pipeline, pipelines, nSources, createMode, memVars, rerun, store, ctxCancelled, cancels, canc, streamVars>>

\* e.store.UpdateJob(job) with the successful step, then the next step
SupSuccessWrite ==
    /\ sup.pc = "success_write"
    /\ store' = sup.job
    /\ sup' = [sup EXCEPT !.pc = "check", !.idx = @ + 1]
    /\ UNCHANGED <<pipeline, pipelines, nSources, createMode, memVars, rerun, checkpoints,
                   ctxCancelled, cancels, clock, canc, streamVars>>

\* after the loop: job.Status = succeeded; job.UpdatedAt = time.Now()
SupFinishNow ==
    /\ sup.pc = "finish_now"
    /\ sup' = [sup EXCEPT !.pc = "finish_write",
                          !.job.status = JobStatusSucceeded,
                          !.job.updated_at = clock]
    /\ clock' = Tick(clock)
    /\ UNCHANGED <<pipeline, pipelines, nSources, createMode, memVars, rerun, store, checkpoints,
                   ctxCancelled, cancels, canc, streamVars>>

\* _ = e.store.UpdateJob(job); executeJob returns
SupFinishWrite ==
    /\ sup.pc = "finish_write"
    /\ store' = sup.job
    /\ SupReturn
    /\ UNCHANGED <<pipeline, pipelines, nSources, createMode, memVars, rerun, checkpoints,
                   clock, canc, streamVars>>

----------------------------------------------------------------------------
(* CancelJob *)

DefaultReason(reason) == IF reason = "" THEN "cancelled by user" ELSE reason

\* the changes CancelJob makes to the job it loaded
cancelMutate(job, reason, now) ==
    [job EXCEPT
        !.status = JobStatusCancelled,
        !.error = [code |-> "cancelled", message |-> reason],
        !.updated_at = now,
        !.steps = [i \in 1..Len(job.steps) |->
                      IF job.steps[i].status \in {StepExecRunning, StepExecPending}
                      THEN [job.steps[i] EXCEPT !.status = StepExecCancelled,
                                                !.finished_at = now]
                      ELSE job.steps[i]]]

\* a test that lets through every job that is not cancelled yet
cancelledAlready(status) == status = JobStatusCancelled

\* CancelJob: if isTerminal(job.Status) { return nil }
cancelIsNoop(status) == isTerminal(status)

\* job, err := e.store.GetJob(jobID); a terminal job is left alone
CancelGet(c) ==
    /\ canc[c].pc = "idle"
    /\ store # NoJob
    /\ \E reason \in Reasons :
          IF cancelIsNoop(store.status)
          THEN canc' = [canc EXCEPT ![c] = [@ EXCEPT !.pc = "done", !.job = store,
                                                    !.reason = DefaultReason(reason),
                                                    !.result = "noop"]]
          ELSE canc' = [canc EXCEPT ![c] = [@ EXCEPT !.pc = "signal", !.job = store,
                                                    !.reason = DefaultReason(reason)]]
    /\ UNCHANGED <<pipeline, pipelines, nSources, createMode, memVars, rerun, store, checkpoints,
                   ctxCancelled, cancels, clock, sup, streamVars>>

\* cancel := e.getCancel(jobID); if cancel != nil { cancel() }
CancelSignal(c) ==
    /\ canc[c].pc = "signal"
    /\ ctxCancelled' = (ctxCancelled \/ cancels)
    /\ canc' = [canc EXCEPT ![c].pc = "now"]
    /\ UNCHANGED <<pipeline, pipelines, nSources, createMode, memVars, rerun, store, checkpoints,
                   cancels, clock, sup, streamVars>>

\* now := time.Now().UTC() and the changes to the loaded job
CancelNow(c) ==
    /\ canc[c].pc = "now"
    /\ canc' = [canc EXCEPT ![c] = [@ EXCEPT !.pc = "write", !.now = clock,
                                            !.job = cancelMutate(@, canc[c].reason, clock)]]
    /\ clock' = Tick(clock)
    /\ UNCHANGED <<pipeline, pipelines, nSources, createMode, memVars, rerun, store, checkpoints,
                   ctxCancelled, cancels, sup, streamVars>>

\* e.store.UpdateJob(job); e.clearCancel(jobID); return nil
CancelWrite(c) ==
    /\ canc[c].pc = "write"
    /\ store' = canc[c].job
    /\ cancels' = FALSE
    /\ canc' = [canc EXCEPT ![c] = [@ EXCEPT !.pc = "done", !.result = "cancelled"]]
    /\ UNCHANGED <<pipeline, pipelines, nSources, createMode, memVars, rerun, checkpoints,
                   ctxCancelled, clock, sup, streamVars>>

----------------------------------------------------------------------------
(* streamJob, the goroutine RunJobStream starts with the request's context *)

\* after the events of one Diff have been sent: return (closing the channel)
\* when the job was terminal, wait for the ticker otherwise
SjAfterSend(term) == IF term THEN "closed" ELSE "wait"

\* job := GetJob; tracker.Diff(job); on the first iteration or after a tick
SjPoll ==
    /\ sj.pc \in {"poll", "wait"}
    /\ LET events == Diff(sj.tracker, store)
       IN sj' = [sj EXCEPT !.tracker = DiffTracker(@, store),
                           !.queue = events,
                           !.term = isTerminal(store.status),
                           !.pc = IF events # <<>> THEN "send"
                                  ELSE SjAfterSend(isTerminal(store.status))]
    /\ UNCHANGED <<engineVars, eventSeq, eventLogs, cj, cjOut, disconnected, gh>>

\* ch <- event, received by createJob's range over the channel
SjSend ==
    /\ sj.pc = "send"
    /\ cj.pc = "recv"
    /\ cj' = [cj EXCEPT !.pc = "append", !.cur = Head(sj.queue)]
    /\ sj' = [sj EXCEPT !.queue = Tail(@),
                        !.pc = IF Tail(sj.queue) # <<>> THEN "send"
                               ELSE SjAfterSend(sj.term)]
    /\ UNCHANGED <<engineVars, eventSeq, eventLogs, cjOut, disconnected, gh>>

\* case <-ctx.Done(): return
SjCtxDone ==
    /\ sj.pc = "wait"
    /\ disconnected
    /\ sj' = [sj EXCEPT !.pc = "closed"]
    /\ UNCHANGED <<engineVars, eventSeq, eventLogs, cj, cjOut, disconnected, gh>>

----------------------------------------------------------------------------
(* createJob with stream=true *)

\* queued := h.appendEvent(job_queued)
CjQueued ==
    /\ cj.pc = "queued"
    /\ LET evt == Stamp(Event("job_queued", JobStatusQueued, "", 0), eventSeq)
       IN /\ eventSeq' = evt.seq
          /\ eventLogs' = Append(eventLogs, evt)
          /\ cj' = [cj EXCEPT !.pc = "enc", !.cur = evt]
    /\ UNCHANGED <<engineVars, sj, cjOut, disconnected, gh>>

\* event = h.appendEvent(event) for an event received from the channel
CjAppend ==
    /\ cj.pc = "append"
    /\ LET evt == Stamp(cj.cur, eventSeq)
       IN /\ eventSeq' = evt.seq
          /\ eventLogs' = Append(eventLogs, evt)
          /\ cj' = [cj EXCEPT !.pc = "enc", !.cur = evt]
    /\ UNCHANGED <<engineVars, sj, cjOut, disconnected, gh>>

\* enc.Encode(event) and the flush: the client receives the event
CjEncode ==
    /\ cj.pc = "enc"
    /\ ~disconnected
    /\ cjOut' = Append(cjOut, cj.cur)
    /\ cj' = [cj EXCEPT !.pc = "recv"]
    /\ UNCHANGED <<engineVars, eventSeq, eventLogs, sj, disconnected, gh>>

\* enc.Encode(event) after the client has gone: the write is lost, and the
\* handler returns when it fails
CjEncodeLost ==
    /\ cj.pc = "enc"
    /\ disconnected
    /\ \E failed \in BOOLEAN :
          cj' = [cj EXCEPT !.pc = IF failed THEN "done" ELSE "recv"]
    /\ UNCHANGED <<engineVars, eventSeq, eventLogs, sj, cjOut, disconnected, gh>>

\* the channel is closed: the range loop ends and createJob returns
CjClosed ==
    /\ cj.pc = "recv"
    /\ sj.pc = "closed"
    /\ cj' = [cj EXCEPT !.pc = "done"]
    /\ UNCHANGED <<engineVars, eventSeq, eventLogs, sj, cjOut, disconnected, gh>>

\* a job context that descends from the request's context
JobCtxOfRequest(cancelled, requestDone) == cancelled \/ requestDone

\* RunJob: jobCtx, cancel := context.WithCancel(context.Background()); the
\* state of the job's context given that of the request's
JobCtx(cancelled, requestDone) == cancelled

\* the client of the streaming create closes the connection, which cancels
\* the request's context
Disconnect ==
    /\ cj.pc \notin {"idle", "done"}
    /\ ~disconnected
    /\ disconnected' = TRUE
    /\ ctxCancelled' = JobCtx(ctxCancelled, TRUE)
    /\ UNCHANGED <<pipeline, pipelines, nSources, createMode, memVars, rerun, store, checkpoints,
                   cancels, clock, sup, canc>>
    /\ UNCHANGED <<eventSeq, eventLogs, sj, cj, cjOut, gh>>

----------------------------------------------------------------------------
(* streamExistingJob, GET /v1/jobs/{id}/stream?after_seq=N *)

MaxAfterSeq == 1    \* the after_seq values requested


RECURSIVE UpToFinished(_)
\* the events the first loop of streamExistingJob writes: all of them, or
\* those up to the first stream_finished
UpToFinished(events) ==
    IF events = <<>> THEN <<>>
    ELSE IF Head(events).event = "stream_finished" THEN <<Head(events)>>
    ELSE <<Head(events)>> \o UpToFinished(Tail(events))

HasFinished(events) ==
    \E k \in 1..Len(events) : events[k].event = "stream_finished"

\* a request for the job created by POST /v1/jobs arrives, with any
\* after_seq; lastSeq := afterSeq.  The handlers are interchangeable, so the
\* requests arrive in the order of their names.
GetStart(h) ==
    /\ gh[h].pc = "idle"
    /\ store # NoJob
    /\ \A o \in DOMAIN gh : gh[o].pc = "idle" => ~(o = "g1" /\ h = "g2")
    /\ \E n \in 0..MaxAfterSeq :
          gh' = [gh EXCEPT ![h] = [@ EXCEPT !.pc = "loop", !.afterSeq = n,
                                           !.lastSeq = n]]
    /\ UNCHANGED <<engineVars, eventSeq, eventLogs, sj, cj, cjOut, disconnected>>

\* the client of the streaming create, having lost its connection, asks for
\* the events after the last seq it received
GetResume(h) ==
    /\ gh[h].pc = "idle"
    /\ disconnected
    /\ cjOut # <<>>
    /\ gh' = [gh EXCEPT ![h] = [@ EXCEPT !.pc = "loop",
                                         !.afterSeq = cjOut[Len(cjOut)].seq,
                                         !.lastSeq = cjOut[Len(cjOut)].seq]]
    /\ UNCHANGED <<engineVars, eventSeq, eventLogs, sj, cj, cjOut, disconnected>>

\* a request with after_seq = the seq of the stream_finished that ends the
\* log of a finished job
GetTail(h) ==
    /\ gh[h].pc = "idle"
    /\ isTerminal(store.status)
    /\ eventLogs # <<>>
    /\ eventLogs[Len(eventLogs)].event = "stream_finished"
    /\ gh' = [gh EXCEPT ![h] = [@ EXCEPT !.pc = "loop",
                                         !.afterSeq = eventLogs[Len(eventLogs)].seq,
                                         !.lastSeq = eventLogs[Len(eventLogs)].seq]]
    /\ UNCHANGED <<engineVars, eventSeq, eventLogs, sj, cj, cjOut, disconnected>>

\* a request for an id the store has no job of, with any after_seq
GetStartNoJob(h) ==
    /\ gh[h].pc = "idle"
    /\ store = NoJob
    /\ \E n \in 0..MaxAfterSeq :
          gh' = [gh EXCEPT ![h] = [@ EXCEPT !.pc = "loop", !.afterSeq = n,
                                           !.lastSeq = n]]
    /\ UNCHANGED <<engineVars, eventSeq, eventLogs, sj, cj, cjOut, disconnected>>

\* head of the loop: events := h.eventsAfter(jobID, lastSeq) and, when there
\* are some, their delivery
GetEventsAfter(h) ==
    /\ gh[h].pc = "loop"
    /\ LET events == eventsAfter(eventLogs, gh[h].lastSeq)
           written == UpToFinished(events)
       IN IF events # <<>>
          THEN gh' = [gh EXCEPT ![h] =
                        [@ EXCEPT !.out = @ \o written,
                                  !.lastSeq = written[Len(written)].seq,
                                  !.sent = TRUE,
                                  !.pc = IF HasFinished(written) THEN "done" ELSE "loop"]]
          ELSE gh' = [gh EXCEPT ![h] = [@ EXCEPT !.sent = FALSE, !.pc = "haslog"]]
    /\ UNCHANGED <<engineVars, eventSeq, eventLogs, sj, cj, cjOut, disconnected>>

\* else if !h.hasEventLog(jobID); with a log the handler goes to the select
GetHasLog(h) ==
    /\ gh[h].pc = "haslog"
    /\ gh' = [gh EXCEPT ![h].pc = IF hasEventLog(eventSeq, eventLogs)
                                  THEN "wait" ELSE "getjob"]
    /\ UNCHANGED <<engineVars, eventSeq, eventLogs, sj, cj, cjOut, disconnected>>

\* what follows the loop over the tracker's events: return for a terminal
\* job when nothing was sent, continue when something was, else the select
GetAfterDiff(g) ==
    IF g.term /\ ~g.sent THEN "done"
    ELSE IF g.sent THEN "loop" ELSE "wait"

\* case <-ticker.C
GetTick(h) ==
    /\ gh[h].pc = "wait"
    /\ gh' = [gh EXCEPT ![h].pc = "loop"]
    /\ UNCHANGED <<engineVars, eventSeq, eventLogs, sj, cj, cjOut, disconnected>>

\* case <-ctx.Done(): the client of the GET stream has gone; return
GetCtxDone(h) ==
    /\ gh[h].pc = "wait"
    /\ gh' = [gh EXCEPT ![h] = [@ EXCEPT !.pc = "done", !.gone = TRUE]]
    /\ UNCHANGED <<engineVars, eventSeq, eventLogs, sj, cj, cjOut, disconnected>>

\* job, err := h.engine.GetJob(ctx, jobID) fails, the store having no job of
\* that id: writeStreamError stamps an error event, writes it, and the
\* handler returns
GetJobError(h) ==
    /\ gh[h].pc = "getjob"
    /\ store = NoJob
    /\ LET evt == Stamp(Event("error", "", "", 0), eventSeq)
       IN /\ eventSeq' = evt.seq
          /\ eventLogs' = Append(eventLogs, evt)
          /\ gh' = [gh EXCEPT ![h] = [@ EXCEPT !.out = Append(@, evt),
                                               !.pc = "done"]]
    /\ UNCHANGED <<engineVars, sj, cj, cjOut, disconnected>>

\* job, err := h.engine.GetJob(ctx, jobID); tracker.Diff(job)
GetJobDiff(h) ==
    /\ gh[h].pc = "getjob"
    /\ store # NoJob
    /\ LET events == Diff(gh[h].tracker, store)
           g == [gh[h] EXCEPT !.tracker = DiffTracker(@, store),
                              !.queue = events,
                              !.term = isTerminal(store.status)]
       IN gh' = [gh EXCEPT ![h] =
                    [g EXCEPT !.pc = IF events # <<>> THEN "append"
                                     ELSE GetAfterDiff(g)]]
    /\ UNCHANGED <<engineVars, eventSeq, eventLogs, sj, cj, cjOut, disconnected>>

\* event = h.appendEvent(event) for the next event of the tracker, and its
\* delivery unless its seq is not above lastSeq
GetAppend(h) ==
    /\ gh[h].pc = "append"
    /\ LET evt == Stamp(Head(gh[h].queue), eventSeq)
           rest == Tail(gh[h].queue)
           skip == evt.seq <= gh[h].lastSeq
           g == IF skip THEN [gh[h] EXCEPT !.queue = rest]
                ELSE [gh[h] EXCEPT !.queue = rest, !.out = Append(@, evt),
                                   !.lastSeq = evt.seq, !.sent = TRUE]
       IN /\ eventSeq' = evt.seq
          /\ eventLogs' = Append(eventLogs, evt)
          /\ gh' = [gh EXCEPT ![h] =
                      [g EXCEPT !.pc = IF ~skip /\ evt.event = "stream_finished"
                                       THEN "done"
                                       ELSE IF rest # <<>> THEN "append"
                                       ELSE GetAfterDiff(g)]]
    /\ UNCHANGED <<engineVars, sj, cj, cjOut, disconnected>>

----------------------------------------------------------------------------
(* The in-memory store by itself, internal/store/memory.go                 *)
(*                                                                         *)
(* A Go pointer, slice or map is an address of the heap; the object it     *)
(* refers to is the heap's value at that address.  Two references share    *)
(* state exactly when they hold the same address.  A struct held by value  *)
(* (the Job behind the pointer only its owner has) is a record.            *)

MaxOps == 4         \* operations the caller performs

Nil == 0
Changed == "changed"

ErrJobExists == "job already exists"
ErrJobNotFound == "job not found"

JobIDs == {"job-a", "job-b"}

\* the variables of the job the engine runs
runVars == <<pipeline, pipelines, nSources, createMode, rerun, store, checkpoints,
             ctxCancelled, cancels, clock, sup, canc>>

\* ProviderProfile{}
NoProfile ==
    [id |-> "", kind |-> "", base_uri |-> "", api_key |-> "", default_model |-> "",
     extra |-> Nil]

\* NewMemoryStore, NewProviderRegistry without profiles, a caller that
\* has done nothing yet
CallerIdle ==
    [held |-> <<>>, op |-> "none", id |-> "", err |-> "", n |-> 0,
     step |-> "", items |-> Nil,
     loaded |-> [job |-> "", nil |-> TRUE, m |-> [s \in {} |-> Nil]],
     overrides |-> [k \in {} |-> ""], resolved |-> NoProfile]

MemIdle ==
    /\ heap = <<>>
    /\ jobs = [i \in {} |-> Nil]
    /\ jobCheckpoints = [i \in {} |-> Nil]
    /\ profiles = [i \in {} |-> Nil]
    /\ caller = CallerIdle

\* the job RunJob builds: its sources, its pending step executions, no
\* result and no error yet
newQueuedJob(h, id) ==
    LET a == Len(h) IN
    [heap |-> h \o << << "test" >>,                                      \* Input.Sources
                      << [status |-> StepExecPending, chunks |-> Nil,
                          error |-> Nil] >> >>,                          \* StepExecutions
     job  |-> [id |-> id, status |-> JobStatusQueued, sources |-> a + 1,
               steps |-> a + 2, result |-> Nil, error |-> Nil]]

\* a job as executeJob leaves it: a step with chunks and an error, a result
\* with an item, the job's error
newFinishedJob(h, id) ==
    LET a == Len(h) IN
    [heap |-> h \o << << "test" >>,                                      \* Input.Sources
                      [text |-> "dummy"],                                \* the item's Data
                      << [label |-> "summary", shard |-> Nil,
                          data |-> a + 2] >>,       \* Result.Items
                      [items |-> a + 3],                                 \* *JobResult
                      << "chunk" >>,                                     \* the step's Chunks
                      [code |-> "provider_error"],                       \* the step's *JobError
                      << [status |-> StepExecFailed, chunks |-> a + 5,
                          error |-> a + 6] >>,                           \* StepExecutions
                      [code |-> "provider_error"] >>,                    \* the job's *JobError
     job  |-> [id |-> id, status |-> JobStatusFailed, sources |-> a + 1,
               steps |-> a + 7, result |-> a + 4, error |-> a + 8]]

\* cloneJob: the struct, the StepExecutions slice, the JobResult and its
\* Items slice are copied; every other reference is copied as a reference
cloneJob(h, job) ==
    LET h1 == IF job.steps # Nil THEN Append(h, h[job.steps]) ELSE h
        steps == IF job.steps # Nil THEN Len(h1) ELSE Nil
        copyItems == job.result # Nil /\ h[job.result].items # Nil
        h2 == IF copyItems THEN Append(h1, h[h[job.result].items]) ELSE h1
        h3 == IF job.result = Nil THEN h2
              ELSE Append(h2, IF copyItems THEN [h[job.result] EXCEPT !.items = Len(h2)]
                                           ELSE h[job.result])
        result == IF job.result # Nil THEN Len(h3) ELSE Nil
    IN  [heap |-> h3, job |-> [job EXCEPT !.steps = steps, !.result = result]]

\* a lookup that never finds the job
findsNoJob(js, id) == FALSE

\* s.jobs[id], ok
hasJob(js, id) == id \in DOMAIN js

\* s.jobs[id] = job
putJob(js, id, job) == [i \in DOMAIN js \cup {id} |-> IF i = id THEN job ELSE js[i]]

\* what a reference leads to
deref(h, a) == IF a = Nil THEN <<>> ELSE h[a]

\* a job with every reference followed: what a reader of the job sees
DeepJob(h, job) ==
    [id |-> job.id,
     status |-> job.status,
     sources |-> deref(h, job.sources),
     steps |-> LET ss == deref(h, job.steps) IN
               [i \in 1..Len(ss) |->
                   [status |-> ss[i].status,
                    chunks |-> deref(h, ss[i].chunks),
                    error  |-> deref(h, ss[i].error)]],
     items |-> LET its == IF job.result = Nil THEN <<>>
                          ELSE deref(h, h[job.result].items) IN
               [i \in 1..Len(its) |->
                   [label |-> its[i].label, data |-> deref(h, its[i].data)]],
     error |-> deref(h, job.error)]

\* the parts of a job a holder of it can assign to
Paths == {"status", "step.status", "step.chunk", "step.error",
          "item.label", "item.data", "error", "source"}

\* the job has the part
hasPart(h, job, path) ==
    CASE path = "status"      -> TRUE
      [] path = "source"      -> job.sources # Nil
      [] path = "error"       -> job.error # Nil
      [] path = "step.status" -> job.steps # Nil
      [] path = "step.chunk"  -> job.steps # Nil /\ h[job.steps][1].chunks # Nil
      [] path = "step.error"  -> job.steps # Nil /\ h[job.steps][1].error # Nil
      [] path = "item.label"  -> job.result # Nil /\ h[job.result].items # Nil
      [] OTHER                -> job.result # Nil /\ h[job.result].items # Nil

\* the heap after an assignment to that part through the job
assign(h, job, path) ==
    CASE path = "status"      -> h
      [] path = "source"      -> [h EXCEPT ![job.sources][1] = Changed]
      [] path = "error"       -> [h EXCEPT ![job.error].code = Changed]
      [] path = "step.status" -> [h EXCEPT ![job.steps][1].status = Changed]
      [] path = "step.chunk"  -> [h EXCEPT ![h[job.steps][1].chunks][1] = Changed]
      [] path = "step.error"  -> [h EXCEPT ![h[job.steps][1].error].code = Changed]
      [] path = "item.label"  -> [h EXCEPT ![h[job.result].items][1].label = Changed]
      [] OTHER                -> [h EXCEPT ![h[h[job.result].items][1].data].text = Changed]

\* the caller builds a job
NewJob(id, finished) ==
    /\ caller.n < MaxOps
    /\ LET n == IF finished THEN newFinishedJob(heap, id) ELSE newQueuedJob(heap, id) IN
         /\ heap' = n.heap
         /\ caller' = [caller EXCEPT !.held = Append(@, n.job), !.op = "new",
                                     !.id = id, !.err = "", !.n = @ + 1]
    /\ UNCHANGED <<jobs, jobCheckpoints, profiles, runVars, streamVars>>

\* MemoryStore.CreateJob with the k-th job the caller holds
CreateJob(k) ==
    LET job == caller.held[k]
        c == cloneJob(heap, job) IN
    /\ caller.n < MaxOps
    /\ IF hasJob(jobs, job.id)
       THEN /\ caller' = [caller EXCEPT !.op = "create", !.id = job.id,
                                        !.err = ErrJobExists, !.n = @ + 1]
            /\ UNCHANGED <<heap, jobs>>
       ELSE /\ heap' = c.heap
            /\ jobs' = putJob(jobs, job.id, c.job)
            /\ caller' = [caller EXCEPT !.op = "create", !.id = job.id, !.err = "",
                                        !.n = @ + 1]
    /\ UNCHANGED <<jobCheckpoints, profiles, runVars, streamVars>>

\* MemoryStore.UpdateJob with the k-th job the caller holds
UpdateJob(k) ==
    LET job == caller.held[k]
        c == cloneJob(heap, job) IN
    /\ caller.n < MaxOps
    /\ IF ~hasJob(jobs, job.id)
       THEN /\ caller' = [caller EXCEPT !.op = "update", !.id = job.id,
                                        !.err = ErrJobNotFound, !.n = @ + 1]
            /\ UNCHANGED <<heap, jobs>>
       ELSE /\ heap' = c.heap
            /\ jobs' = putJob(jobs, job.id, c.job)
            /\ caller' = [caller EXCEPT !.op = "update", !.id = job.id, !.err = "",
                                        !.n = @ + 1]
    /\ UNCHANGED <<jobCheckpoints, profiles, runVars, streamVars>>

\* MemoryStore.GetJob: the caller holds the job it returns
GetJob(id) ==
    /\ caller.n < MaxOps
    /\ IF ~hasJob(jobs, id)
       THEN /\ caller' = [caller EXCEPT !.op = "get", !.id = id, !.err = ErrJobNotFound,
                                        !.n = @ + 1]
            /\ UNCHANGED heap
       ELSE LET c == cloneJob(heap, jobs[id]) IN
            /\ heap' = c.heap
            /\ caller' = [caller EXCEPT !.held = Append(@, c.job), !.op = "get",
                                        !.id = id, !.err = "", !.n = @ + 1]
    /\ UNCHANGED <<jobs, jobCheckpoints, profiles, runVars, streamVars>>

\* the orders a range over a map can take
Orders(S) ==
    {o \in [1..Cardinality(S) -> S] : \A i, j \in 1..Cardinality(S) : o[i] = o[j] => i = j}

\* the loop of ListJobs from its i-th job on
RECURSIVE listJobs(_, _, _, _, _)
listJobs(h, js, order, i, result) ==
    IF i > Len(order) THEN [heap |-> h, result |-> result]
    ELSE LET c == cloneJob(h, js[order[i]]) IN
         listJobs(c.heap, js, order, i + 1, Append(result, c.job))

\* MemoryStore.ListJobs: the caller holds the jobs it returns
ListJobs ==
    \E order \in Orders(DOMAIN jobs) :
        LET l == listJobs(heap, jobs, order, 1, <<>>) IN
        /\ caller.n < MaxOps
        /\ heap' = l.heap
        /\ caller' = [caller EXCEPT !.held = @ \o l.result, !.op = "list",
                                    !.id = "", !.err = "", !.n = @ + 1]
        /\ UNCHANGED <<jobs, jobCheckpoints, profiles, runVars, streamVars>>

\* the caller assigns to a part of the k-th job it holds
Mutate(k, path) ==
    LET job == caller.held[k] IN
    /\ caller.n < MaxOps
    /\ hasPart(heap, job, path)
    /\ heap' = assign(heap, job, path)
    /\ caller' = [caller EXCEPT !.op = "mutate", !.id = job.id, !.err = "", !.n = @ + 1,
                                !.held[k].status = IF path = "status" THEN Changed ELSE @]
    /\ UNCHANGED <<jobs, jobCheckpoints, profiles, runVars, streamVars>>

JobStoreNext ==
    \/ \E id \in JobIDs, finished \in BOOLEAN : NewJob(id, finished)
    \/ \E k \in 1..Len(caller.held) : CreateJob(k)
    \/ \E k \in 1..Len(caller.held) : UpdateJob(k)
    \/ \E id \in JobIDs : GetJob(id)
    \/ ListJobs
    \/ \E k \in 1..Len(caller.held), path \in Paths : Mutate(k, path)

----------------------------------------------------------------------------
(* The checkpoints of the in-memory store, memory.go *)

MaxItems == 1       \* items of one checkpoint

CheckpointSteps == {"A", "B"}

ItemIDs == <<"item-1", "item-2", "item-3">>

\* the slice of n items a caller passes, from the i-th item on: every item
\* has its own Data map, every other item a shard key
RECURSIVE newItems(_, _, _, _)
newItems(h, n, i, items) ==
    IF i > n THEN [heap |-> Append(h, items), items |-> Len(h) + 1]
    ELSE LET h1 == IF i % 2 = 1 THEN Append(h, "shard") ELSE h
             shard == IF i % 2 = 1 THEN Len(h1) ELSE Nil
             h2 == Append(h1, [text |-> "dummy"])
         IN  newItems(h2, n, i + 1,
                      Append(items, [label |-> ItemIDs[i], shard |-> shard, data |-> Len(h2)]))

\* the loop of cloneResultItems from the i-th item on: the item, its shard
\* key and its Data map (cloneMap) are copied
RECURSIVE cloneItemsFrom(_, _, _, _)
cloneItemsFrom(h, items, i, result) ==
    IF i > Len(items) THEN [heap |-> Append(h, result), items |-> Len(h) + 1]
    ELSE LET item == items[i]
             h1 == IF item.shard # Nil THEN Append(h, h[item.shard]) ELSE h
             shard == IF item.shard # Nil THEN Len(h1) ELSE Nil
             h2 == Append(h1, h[item.data])
         IN  cloneItemsFrom(h2, items, i + 1,
                            Append(result, [item EXCEPT !.shard = shard, !.data = Len(h2)]))

\* len(items)
lenItems(h, a) == IF a = Nil THEN 0 ELSE Len(h[a])

\* cloneResultItems: nil for no items
cloneResultItems(h, a) ==
    IF lenItems(h, a) = 0 THEN [heap |-> h, items |-> Nil]
    ELSE cloneItemsFrom(h, h[a], 1, <<>>)

\* m[key] = value
put(m, key, value) == [k \in DOMAIN m \cup {key} |-> IF k = key THEN value ELSE m[k]]

\* MemoryStore.SaveCheckpoint
saveCheckpoint(h, cps, jobID, stepID, a) ==
    IF lenItems(h, a) = 0 THEN [heap |-> h, cps |-> cps]
    ELSE LET c == cloneResultItems(h, a)
             inner == IF jobID \in DOMAIN cps THEN cps[jobID] ELSE [s \in {} |-> Nil]
         IN  [heap |-> c.heap, cps |-> put(cps, jobID, put(inner, stepID, c.items))]

\* the loop of LoadCheckpoints from the i-th step of its range on
RECURSIVE loadFrom(_, _, _, _, _)
loadFrom(h, source, order, i, result) ==
    IF i > Len(order) THEN [heap |-> h, nil |-> FALSE, m |-> result]
    ELSE LET c == cloneResultItems(h, source[order[i]]) IN
         loadFrom(c.heap, source, order, i + 1, put(result, order[i], c.items))

\* MemoryStore.LoadCheckpoints: nil for a job without checkpoints
loadCheckpoints(h, cps, jobID, order) ==
    IF jobID \notin DOMAIN cps THEN [heap |-> h, nil |-> TRUE, m |-> [s \in {} |-> Nil]]
    ELSE loadFrom(h, cps[jobID], order, 1, [s \in {} |-> Nil])

\* a ClearCheckpoints that deletes every job's checkpoints
clearAllCheckpoints(cps, jobID) == [j \in {} |-> Nil]

\* MemoryStore.ClearCheckpoints: delete(s.checkpoints, jobID)
clearCheckpoints(cps, jobID) == [j \in DOMAIN cps \ {jobID} |-> cps[j]]

\* the items of a slice with every reference followed
DeepItems(h, a) ==
    LET items == deref(h, a) IN
    [i \in 1..Len(items) |->
        [label |-> items[i].label,
         shard |-> IF items[i].shard = Nil THEN "" ELSE h[items[i].shard],
         data  |-> h[items[i].data]]]

\* the steps of a job's checkpoints, in the order of one range over them
StepsOf(cps, jobID) ==
    IF jobID \in DOMAIN cps THEN CHOOSE o \in Orders(DOMAIN cps[jobID]) : TRUE ELSE <<>>

\* what LoadCheckpoints returns for the job, references followed
LoadResult(h, cps, jobID) ==
    LET l == loadCheckpoints(h, cps, jobID, StepsOf(cps, jobID)) IN
    [nil |-> l.nil, m |-> [s \in DOMAIN l.m |-> DeepItems(l.heap, l.m[s])]]

\* the caller passes a slice of n items, the nil slice for none, to
\* SaveCheckpoint
CheckpointSave(jobID, stepID, n) ==
    LET made == IF n = 0 THEN [heap |-> heap, items |-> Nil]
                ELSE newItems(heap, n, 1, <<>>)
        saved == saveCheckpoint(made.heap, jobCheckpoints, jobID, stepID, made.items) IN
    /\ caller.n < MaxOps
    /\ heap' = saved.heap
    /\ jobCheckpoints' = saved.cps
    /\ caller' = [caller EXCEPT !.op = "save", !.id = jobID, !.err = "", !.n = @ + 1,
                                !.step = stepID, !.items = made.items]
    /\ UNCHANGED <<jobs, profiles, runVars, streamVars>>

\* the caller calls LoadCheckpoints and keeps the map it returns
CheckpointLoad(jobID) ==
    /\ caller.n < MaxOps
    /\ \E order \in Orders(IF jobID \in DOMAIN jobCheckpoints
                           THEN DOMAIN jobCheckpoints[jobID] ELSE {}) :
         LET l == loadCheckpoints(heap, jobCheckpoints, jobID, order) IN
         /\ heap' = l.heap
         /\ caller' = [caller EXCEPT !.op = "load", !.id = jobID, !.err = "", !.n = @ + 1,
                                     !.loaded = [job |-> jobID, nil |-> l.nil, m |-> l.m]]
    /\ UNCHANGED <<jobs, jobCheckpoints, profiles, runVars, streamVars>>

\* the caller calls ClearCheckpoints
CheckpointClear(jobID) ==
    /\ caller.n < MaxOps
    /\ jobCheckpoints' = clearCheckpoints(jobCheckpoints, jobID)
    /\ caller' = [caller EXCEPT !.op = "clear", !.id = jobID, !.err = "", !.n = @ + 1]
    /\ UNCHANGED <<heap, jobs, profiles, runVars, streamVars>>

CheckpointNext ==
    \/ NewJob("job-a", TRUE)
    \/ \E k \in 1..Len(caller.held) : CreateJob(k)
    \/ \E id \in JobIDs, stepID \in CheckpointSteps, n \in 0..MaxItems :
           CheckpointSave(id, stepID, n)
    \/ \E id \in JobIDs : CheckpointLoad(id)
    \/ \E id \in JobIDs : CheckpointClear(id)

----------------------------------------------------------------------------
(* The provider registry with its profiles as objects, provider.go *)

ProviderLocal == "local_tool"

\* RegisterDefaultProviderFactories: the kinds with a factory
Factories == {"openai", "ollama", "image", "local_tool"}

ProfileIDs == {"default-openai", "custom"}

\* the ProviderOverride maps of the steps resolved
Overrides ==
    { [k \in {} |-> ""],
      [k \in {"base_uri"} |-> "http://override"],
      [k \in {"temperature"} |-> "0.2"],
      [k \in {"default_model", "temperature"} |-> IF k = "default_model" THEN "small" ELSE "0.2"] }

\* the override keys mergeProfile writes to fields of the profile
ProfileFields == {"base_uri", "api_key", "default_model"}

\* mergeProfile: the profile by value with the overrides applied; the keys
\* that are no fields go into result.Extra, the map base.Extra refers to
mergeProfile(h, base, overrides) ==
    IF DOMAIN overrides = {} THEN [heap |-> h, profile |-> base]
    ELSE LET h1 == IF base.extra = Nil THEN Append(h, [k \in {} |-> ""]) ELSE h
             extra == IF base.extra = Nil THEN Len(h1) ELSE base.extra
             others == DOMAIN overrides \ ProfileFields
             field(name, old) == IF name \in DOMAIN overrides THEN overrides[name] ELSE old
         IN  [heap |-> [h1 EXCEPT ![extra] =
                           [k \in DOMAIN h1[extra] \cup others |->
                               IF k \in others THEN overrides[k] ELSE h1[extra][k]]],
              profile |-> [base EXCEPT !.base_uri = field("base_uri", @),
                                       !.api_key = field("api_key", @),
                                       !.default_model = field("default_model", @),
                                       !.extra = extra]]

\* ProviderRegistry.Resolve with the profiles as objects: the merged profile
\* or the error
resolveProfile(h, ps, profileID, overrides) ==
    IF profileID = ""
    THEN [heap |-> h, profile |-> NoProfile,
          err |-> "provider_profile_id is required for this step"]
    ELSE IF profileID \notin DOMAIN ps
    THEN [heap |-> h, profile |-> NoProfile, err |-> "provider profile not found"]
    ELSE LET merged == mergeProfile(h, ps[profileID], overrides) IN
         IF merged.profile.kind \notin Factories
         THEN [heap |-> merged.heap, profile |-> NoProfile,
               err |-> "provider kind not registered"]
         ELSE [heap |-> merged.heap, profile |-> merged.profile, err |-> ""]

\* a profile with its Extra map followed
DeepProfile(h, profile) == [profile EXCEPT !.extra = deref(h, profile.extra)]

\* the registry's profiles as a reader sees them
StoredProfiles(h, ps) == [id \in DOMAIN ps |-> DeepProfile(h, ps[id])]

\* ProviderRegistry.RegisterProfile with a profile the caller builds, with
\* an Extra map of its own or none
RegisterProfile(id, kind, uri, withExtra) ==
    /\ caller.n < MaxOps
    /\ LET h1 == IF withExtra THEN Append(heap, [k \in {"region"} |-> "eu"]) ELSE heap
           given == [id |-> id, kind |-> kind, base_uri |-> uri, api_key |-> "",
                     default_model |-> "", extra |-> IF withExtra THEN Len(h1) ELSE Nil]
           h2 == IF given.extra = Nil THEN Append(h1, [k \in {} |-> ""]) ELSE h1
           profile == [given EXCEPT !.kind = IF @ = "" THEN ProviderLocal ELSE @,
                                    !.extra = IF @ = Nil THEN Len(h2) ELSE @]
       IN  IF id = ""
           THEN heap' = h1 /\ UNCHANGED profiles
           ELSE heap' = h2 /\ profiles' = put(profiles, id, profile)
    /\ caller' = [caller EXCEPT !.op = "register", !.id = id, !.err = "", !.n = @ + 1]
    /\ UNCHANGED <<jobs, jobCheckpoints, runVars, streamVars>>

\* ProviderRegistry.Resolve of a step with the profile id and overrides
ResolveProfile(profileID, overrides) ==
    /\ caller.n < MaxOps
    /\ LET r == resolveProfile(heap, profiles, profileID, overrides) IN
         /\ heap' = r.heap
         /\ caller' = [caller EXCEPT !.op = "resolve", !.id = profileID, !.err = r.err,
                                     !.n = @ + 1, !.overrides = overrides,
                                     !.resolved = r.profile]
    /\ UNCHANGED <<jobs, jobCheckpoints, profiles, runVars, streamVars>>

RegistryNext ==
    \/ \E id \in ProfileIDs \cup {""}, kind \in {"", "openai", "bedrock"},
          uri \in {"http://localhost"}, withExtra \in BOOLEAN :
           RegisterProfile(id, kind, uri, withExtra)
    \/ \E id \in ProfileIDs \cup {""}, overrides \in Overrides :
           ResolveProfile(id, overrides)

----------------------------------------------------------------------------
(* The engine alone: RunJob, the supervisor and the CancelJob callers *)

\* the state before RunJob, for a job of one of the given pipelines and
\* numbers of sources, created in the given mode
EngineInit(pipes, srcs, modes, callers) ==
    /\ pipeline \in pipes
    /\ pipelines = pipeline
    /\ nSources \in srcs
    /\ createMode \in modes
    /\ rerun = NoRerun
    /\ store = NoJob
    /\ checkpoints = EmptyMap
    /\ ctxCancelled = FALSE
    /\ cancels = FALSE
    /\ clock = 1
    /\ sup = SupIdle
    /\ canc = [c \in callers |-> CancIdle]
    /\ MemIdle

StreamIdle ==
    /\ eventSeq = 0
    /\ eventLogs = <<>>
    /\ sj = SjIdle
    /\ cj = CjIdle
    /\ cjOut = <<>>
    /\ disconnected = FALSE

\* executeJob without recordChunks
SupSteps ==
    \/ SupGet \/ SupStartNow \/ SupStartWrite \/ SupCheck \/ SupBeginNow
    \/ SupRunWrite \/ SupRunCtx \/ SupCall
    \/ SupFailNow \/ SupFailWrite \/ SupSuccessNow \/ SupSuccessWrite
    \/ SupFinishNow \/ SupFinishWrite

SupNext == SupSteps \/ SupRecordNow \/ SupChunkWrite

CancelNext ==
    \E c \in DOMAIN canc :
        CancelGet(c) \/ CancelSignal(c) \/ CancelNow(c) \/ CancelWrite(c)

EngineNext == RunJob \/ SupNext \/ RunJobSyncReturn \/ CancelNext

Init ==
    /\ EngineInit(Pipelines, 0..MaxSources, {"async", "sync"}, {"c1"})
    /\ StreamIdle
    /\ gh = [h \in {} |-> GhIdle]

Next == EngineNext
Spec == Init /\ [][Next]_vars

\* the goroutine of executeJob (or RunJob itself with mode = "sync") and the
\* goroutine of each CancelJob call keep being scheduled; a provider call
\* returns (SupCall)
EngineFairness ==
    /\ WF_vars(RunJob \/ RunJobSyncReturn \/ SupNext)
    /\ \A c \in {"c1"} : WF_vars(CancelGet(c) \/ CancelSignal(c) \/ CancelNow(c) \/ CancelWrite(c))
FairSpec == Spec /\ EngineFairness

----------------------------------------------------------------------------
(* A streaming create, its client and a GET stream that resumes it *)

\* the jobs followed through the streams: one step, run by an HTTP provider
\* or naming a profile that is not registered
StreamPipelines == {
    << StepDef("A", StepModeSingle, <<>>, TRUE, "default-openai") >>,
    << StepDef("A", StepModeSingle, <<>>, TRUE, "ghost") >> }
\* the jobs polled by GET streams: the default pipeline, and a step that
\* depends on a step the pipeline does not have.  Neither reaches an HTTP
\* provider, so recordChunks is never called for them.
PollPipelines == {
    << StepDef("step-1", StepModeSingle, <<>>, TRUE, "") >>,
    << StepDef("A", StepModeSingle, <<"C">>, TRUE, "default-local") >> }

SjNext == SjPoll \/ SjSend \/ SjCtxDone

CjNext == CjQueued \/ CjAppend \/ CjEncode \/ CjEncodeLost \/ CjClosed \/ Disconnect

\* one step of the handler of a GET stream
GetStep(h) ==
    GetEventsAfter(h) \/ GetHasLog(h) \/ GetJobDiff(h) \/ GetAppend(h)
    \/ GetTick(h)

GetNext == \E h \in DOMAIN gh : GetStep(h)

\* the client of a GET stream goes away
GetGone == \E h \in DOMAIN gh : GetCtxDone(h)

StreamInit ==
    /\ EngineInit(StreamPipelines, {1}, {"stream"}, {})
    /\ StreamIdle
    /\ gh = [h \in {"g1"} |-> GhIdle]

StreamNext ==
    \/ RunJob \/ SupNext \/ SjNext \/ CjNext
    \/ (\E h \in DOMAIN gh : GetResume(h)) \/ GetNext \/ GetGone
StreamSpec == StreamInit /\ [][StreamNext]_vars

\* every goroutine that can take a step eventually takes one
StreamFairness ==
    /\ WF_vars(RunJob \/ SupNext)
    /\ WF_vars(SjNext)
    /\ WF_vars(CjQueued \/ CjAppend \/ CjEncode \/ CjEncodeLost \/ CjClosed)
    /\ WF_vars(GetNext)
FairStreamSpec == StreamSpec /\ StreamFairness

(* A job created without streaming and GET streams that follow it *)

PollInit ==
    /\ EngineInit(PollPipelines, {1}, {"async"}, {})
    /\ StreamIdle
    /\ gh = [h \in {"g1", "g2"} |-> GhIdle]

PollNext ==
    \/ RunJob \/ SupSteps
    \/ (\E h \in DOMAIN gh : GetStart(h)) \/ (\E h \in DOMAIN gh : GetTail(h))
    \/ GetNext \/ GetGone
PollSpec == PollInit /\ [][PollNext]_vars

\* the supervisor and each handler that can take a step eventually take
\* one; requests need not arrive and clients need not go away
PollFairness ==
    /\ WF_vars(RunJob \/ SupSteps)
    /\ \A h \in {"g1", "g2"} : WF_vars(GetStep(h))
FairPollSpec == PollSpec /\ PollFairness

(* A job and two CancelJob callers *)

CancelInit ==
    /\ EngineInit(PollPipelines, {1}, {"async"}, {"c1", "c2"})
    /\ StreamIdle
    /\ gh = [h \in {} |-> GhIdle]

CancelSpecNext == RunJob \/ SupSteps \/ CancelNext
CancelSpec == CancelInit /\ [][CancelSpecNext]_vars

(* A job whose steps make several calls of HTTP providers, and a CancelJob
   caller *)

ChunkPipelines == {
    \* fan-out over the sources, then a step per item of the fan-out
    << StepDef("A", StepModeFanOut, <<>>, TRUE, "default-openai"),
       StepDef("B", StepModePerItem, <<"A">>, TRUE, "default-ollama") >> }

ChunkInit ==
    /\ EngineInit(ChunkPipelines, 1..MaxSources, {"async"}, {"c1"})
    /\ StreamIdle
    /\ gh = [h \in {} |-> GhIdle]

ChunkNext == RunJob \/ SupNext \/ CancelNext
ChunkSpec == ChunkInit /\ [][ChunkNext]_vars

(* A job, a CancelJob caller, and RegisterPipeline for the job's type *)

RegisterInit ==
    /\ EngineInit(Pipelines, {1}, {"async"}, {"c1"})
    /\ StreamIdle
    /\ gh = [h \in {} |-> GhIdle]

RegisterNext == RunJob \/ SupNext \/ CancelNext \/ RegisterPipeline
RegisterSpec == RegisterInit /\ [][RegisterNext]_vars

(* A job and the chain of its reruns *)

RerunInit ==
    /\ EngineInit(Pipelines, 1..MaxSources, {"async"}, {})
    /\ StreamIdle
    /\ gh = [h \in {} |-> GhIdle]

RerunNext == RunJob \/ SupNext \/ Rerun
RerunSpec == RerunInit /\ [][RerunNext]_vars

(* The job store used by one caller *)

StoreInit ==
    /\ EngineInit(ChunkPipelines, {1}, {"async"}, {})
    /\ StreamIdle
    /\ gh = [h \in {} |-> GhIdle]

StoreSpec == StoreInit /\ [][JobStoreNext]_vars

----------------------------------------------------------------------------
(* The checkpoint store used by one caller *)

CheckpointSpec == StoreInit /\ [][CheckpointNext]_vars

----------------------------------------------------------------------------
(* The provider registry used by one caller *)

RegistrySpec == StoreInit /\ [][RegistryNext]_vars

----------------------------------------------------------------------------
(* Jobs whose steps run in every mode, with and without sources *)

ModePipelines == {
    \* fan-out over the sources, then a step per item of the fan-out
    << StepDef("A", StepModeFanOut, <<>>, TRUE, "default-openai"),
       StepDef("B", StepModePerItem, <<"A">>, TRUE, "default-local") >>,
    \* a single step, then a step per item of it
    << StepDef("A", StepModeSingle, <<>>, TRUE, "default-local"),
       StepDef("B", StepModePerItem, <<"A">>, TRUE, "default-local") >>,
    \* a step per item that depends on no step
    << StepDef("A", StepModePerItem, <<>>, TRUE, "default-local") >> }

ModeInit ==
    /\ EngineInit(ModePipelines, 0..MaxSources, {"async"}, {})
    /\ StreamIdle
    /\ gh = [h \in {} |-> GhIdle]

ModeNext == RunJob \/ SupNext
ModeSpec == ModeInit /\ [][ModeNext]_vars

(* A job of a pipeline type that is not registered, or registered without
   steps, and a CancelJob caller *)

\* what the registry holds for the job's type: nothing, or a definition
\* without steps
DefaultRegistrations == { {}, { <<>> } }

DefaultInit ==
    /\ EngineInit({pipelineForType(reg) : reg \in DefaultRegistrations},
                  0..MaxSources, {"async", "sync"}, {"c1"})
    /\ StreamIdle
    /\ gh = [h \in {} |-> GhIdle]

DefaultNext == RunJob \/ RunJobSyncReturn \/ SupSteps \/ CancelNext
DefaultSpec == DefaultInit /\ [][DefaultNext]_vars

(* One StreamingTracker and the snapshots of a job it is given *)

TrackerPipelines ==
    { << StepDef("A", StepModeFanOut, <<>>, TRUE, "default-openai"),
         StepDef("B", StepModeSingle, <<"A">>, TRUE, "default-openai") >> }

TrackerInit ==
    /\ EngineInit(TrackerPipelines, {1}, {"async"}, {})
    /\ StreamIdle
    /\ gh = [h \in {} |-> GhIdle]

\* the first snapshot: the job as RunJob stores it
TrackerNew ==
    /\ store = NoJob
    /\ store' = [status |-> JobStatusQueued, error |-> NoError,
                 steps |-> newStepExecutions(pipeline),
                 items |-> <<>>, updated_at |-> NoTime]
    /\ UNCHANGED <<pipeline, pipelines, nSources, createMode, memVars, rerun, checkpoints,
                   ctxCancelled, cancels, clock, sup, canc, streamVars>>

\* the next snapshot differs from the last in one more chunk of a step, one
\* more result item of the first step, or in the job and its first step
\* running
TrackerGrow ==
    /\ store # NoJob
    /\ \/ \E i \in 1..Len(store.steps) :
             /\ Len(store.steps[i].chunks) < MaxGrowth
             /\ store' = [store EXCEPT !.steps[i].chunks =
                              appendChunks(@, store.steps[i].step_id, 1)]
       \/ /\ Len(store.items) < MaxGrowth
          /\ store' = [store EXCEPT !.items =
                           Append(@, buildFanOutResult(JobIDOf(0), pipeline[1], Len(store.items)))]
       \/ /\ store.status = JobStatusQueued
          /\ store' = [store EXCEPT !.status = JobStatusRunning,
                                    !.steps[1].status = StepExecRunning]
    /\ UNCHANGED <<pipeline, pipelines, nSources, createMode, memVars, rerun, checkpoints,
                   ctxCancelled, cancels, clock, sup, canc, streamVars>>

\* events := tracker.Diff(job): sj holds the tracker and the events of this
\* call, cjOut the events of all calls, sup.job the snapshot given
TrackerDiff ==
    /\ store # NoJob
    /\ sj' = [sj EXCEPT !.tracker = DiffTracker(@, store),
                        !.queue = Diff(sj.tracker, store)]
    /\ cjOut' = cjOut \o Diff(sj.tracker, store)
    /\ sup' = [sup EXCEPT !.job = store]
    /\ UNCHANGED <<pipeline, pipelines, nSources, createMode, memVars, rerun, store, checkpoints,
                   ctxCancelled, cancels, clock, canc, eventSeq, eventLogs, cj,
                   disconnected, gh>>

TrackerNext == TrackerNew \/ TrackerGrow \/ TrackerDiff
TrackerSpec == TrackerInit /\ [][TrackerNext]_vars

----------------------------------------------------------------------------
(* GET streams for an id the store has no job of *)

NoJobInit ==
    /\ EngineInit(PollPipelines, {1}, {"async"}, {})
    /\ StreamIdle
    /\ gh = [h \in {"g1", "g2"} |-> GhIdle]

NoJobNext ==
    \E h \in DOMAIN gh :
        \/ GetStartNoJob(h) \/ GetEventsAfter(h) \/ GetHasLog(h)
        \/ GetJobError(h) \/ GetTick(h) \/ GetCtxDone(h)
NoJobSpec == NoJobInit /\ [][NoJobNext]_vars

----------------------------------------------------------------------------
(* Properties *)

\* C1: once the stored job has status succeeded, failed or cancelled, no
\* later store write changes that status.
C1_TerminalStatusIsFinal ==
    [][isTerminal(store.status) => store'.status = store.status]_vars

\* C2: after CancelJob returned success for a job it found queued or running,
\* the stored job is cancelled, its error is {cancelled, reason or the default
\* message}, and no step execution is pending or running.
C2_CancelledAfterCancelJob ==
    \A c \in DOMAIN canc :
        (canc[c].pc = "done" /\ canc[c].result = "cancelled") =>
            /\ store.status = JobStatusCancelled
            /\ store.error = [code |-> "cancelled", message |-> canc[c].reason]
            /\ \A i \in 1..Len(store.steps) :
                  store.steps[i].status \notin {StepExecPending, StepExecRunning}

\* C3: in a stored job with a terminal status every step execution is
\* success, failed, skipped or cancelled, and started_at <= finished_at when
\* both are set.
C3_TerminalJobStepsSettled ==
    isTerminal(store.status) =>
        \A i \in 1..Len(store.steps) :
            /\ store.steps[i].status \in {StepExecSuccess, StepExecFailed,
                                          StepExecSkipped, StepExecCancelled}
            /\ (store.steps[i].started_at # NoTime /\ store.steps[i].finished_at # NoTime)
                  => store.steps[i].started_at <= store.steps[i].finished_at

\* C4: the write that records a failed provider call stores, for a
\* cancellation error, the step as cancelled and the job as cancelled, and for
\* any other error the step as failed and the job as failed with code
\* step_failed; finished_at and error are written and the supervisor ends.
C4_ProviderFailureByClass ==
    [][(sup.pc = "fail_write" /\ sup.resp.err # "" /\ sup'.pc # sup.pc) =>
          /\ sup.resp.err = "canceled" =>
                /\ store'.steps[sup.idx].status = StepExecCancelled
                /\ store'.status = JobStatusCancelled
          /\ sup.resp.err # "canceled" =>
                /\ store'.steps[sup.idx].status = StepExecFailed
                /\ store'.status = JobStatusFailed
                /\ store'.error.code = "step_failed"
          /\ store'.steps[sup.idx].finished_at # NoTime
          /\ store'.steps[sup.idx].error # NoError
          /\ sup'.pc = "done"]_vars

Names(events) == {events[k].event : k \in 1..Len(events)}

\* C5: a step whose provider_profile_id is not in the registry ends failed
\* with code profile_not_found, the job ends failed, and job_failed is on the
\* stream of its streaming create.
C5_MissingProfileFailsStep ==
    \A i \in 1..Len(store.steps) :
        (/\ Resolve(pipeline[i]).err = "provider profile not found"
         /\ store.steps[i].status \notin {StepExecPending, StepExecRunning}) =>
            /\ store.steps[i].status = StepExecFailed
            /\ store.steps[i].error.code = "profile_not_found"
            /\ sup.pc = "done" => store.status = JobStatusFailed
            /\ (cj.pc = "done" /\ ~disconnected) => "job_failed" \in Names(cjOut)

\* C6: the k-th event of the job's event log has seq = k.
C6_SeqIsPosition ==
    /\ \A k \in 1..Len(eventLogs) : eventLogs[k].seq = k
    /\ eventSeq = Len(eventLogs)

\* two handlers have stamped the events of their trackers into the same log
C6_Witness ==
    /\ Len(eventLogs) >= 4
    /\ \A h \in DOMAIN gh : gh[h].tracker.lastStatus # "" /\ gh[h].queue = <<>>
    /\ Cardinality(DOMAIN gh) = 2

\* C7: stream_finished has the greatest seq of the job's event log: no event
\* is stamped into the log after it.
C7_StreamFinishedIsLast ==
    \A k \in 1..Len(eventLogs) :
        eventLogs[k].event = "stream_finished" => k = Len(eventLogs)

\* the positions in events of the events with the given name and step
Positions(events, name, step) ==
    {k \in 1..Len(events) : events[k].event = name /\ events[k].step = step}

\* C8: for a job that succeeded, the stream of its create read up to
\* stream_finished has step_started and step_completed of every executed step
\* and one item_completed per result item, all before job_status(succeeded)
\* and job_completed, which stream_finished follows.
C8_SucceededStreamComplete ==
    (/\ sup.pc = "done" /\ store.status = JobStatusSucceeded
     /\ ~disconnected /\ HasFinished(cjOut)) =>
        LET read == UpToFinished(cjOut)
            done == {k \in 1..Len(read) : read[k].event = "job_status"
                                          /\ read[k].status = JobStatusSucceeded}
        IN /\ done # {}
           /\ \A d \in done :
                /\ \A i \in 1..Len(store.steps) :
                      store.steps[i].status = StepExecSuccess =>
                         /\ \E k \in Positions(read, "step_started", store.steps[i].step_id) : k < d
                         /\ \E k \in Positions(read, "step_completed", store.steps[i].step_id) : k < d
                /\ \A n \in 1..Len(store.items) :
                      \E k \in 1..Len(read) : /\ read[k].event = "item_completed"
                                              /\ read[k].n = n - 1 /\ k < d
                /\ \E k \in Positions(read, "job_completed", "") : d < k
           /\ read[Len(read) - 1].event = "job_completed"

\* C9: a GET stream with after_seq = N delivers only events with seq > N, in
\* increasing seq order without leaving out a logged seq between the first and
\* the last delivered one, and nothing after stream_finished.
C9_ResumeDeliversContiguous ==
    \A h \in DOMAIN gh :
        LET out == gh[h].out
        IN /\ \A k \in 1..Len(out) : out[k].seq > gh[h].afterSeq
           /\ \A k \in 1..(Len(out) - 1) : out[k + 1].seq = out[k].seq + 1
           /\ \A k \in 1..Len(out) : out[k].event = "stream_finished" => k = Len(out)

\* C10: when the client of a streaming create has seen the job start, loses
\* its connection and asks for the events after the last seq it received
\* while the job is still running, that GET stream eventually ends, having
\* delivered stream_finished.
C10_ResumeEndsWithStreamFinished ==
    \A h \in {"g1"} :
        (/\ gh[h].pc = "loop" /\ gh[h].out = <<>>
         /\ store.status = JobStatusRunning
         /\ "job_started" \in Names(cjOut)) ~>
            \/ gh[h].gone
            \/ gh[h].pc = "done" /\ "stream_finished" \in Names(gh[h].out)

\* the last two events a finished stream has delivered: the terminal event
\* of the job, then stream_finished
EndsFinished(out) ==
    /\ Len(out) >= 2
    /\ out[Len(out)].event = "stream_finished"
    /\ out[Len(out) - 1].event \in {"job_completed", "job_failed", "job_cancelled"}

\* C11: a GET stream opened on a queued or running job that has no event log
\* yet, and whose client stays, eventually ends, its last two events being
\* the terminal event of the job and stream_finished.
C11_PolledStreamFinishes ==
    \A h \in {"g1", "g2"} :
        (/\ gh[h].pc = "loop" /\ gh[h].out = <<>> /\ gh[h].afterSeq = 0
         /\ eventLogs = <<>>
         /\ store.status \in {JobStatusQueued, JobStatusRunning}) ~>
            \/ gh[h].gone
            \/ gh[h].pc = "done" /\ EndsFinished(gh[h].out)

\* C12: a stream that has ended and delivered an error event has delivered,
\* after it, a terminal event of the job and then stream_finished.
C12_ErrorThenTerminalEvents ==
    \A h \in DOMAIN gh :
        (gh[h].pc = "done" /\ ~gh[h].gone) =>
            \A k \in 1..Len(gh[h].out) :
                gh[h].out[k].event = "error" =>
                    \E j \in (k + 1)..Len(gh[h].out) :
                        /\ gh[h].out[j].event \in
                              {"job_completed", "job_failed", "job_cancelled"}
                        /\ \E i \in (j + 1)..Len(gh[h].out) :
                              gh[h].out[i].event = "stream_finished"

\* the log of a finished job ends with stream_finished, at the given seq
LogFinishedAt(seq) ==
    /\ isTerminal(store.status)
    /\ eventLogs # <<>>
    /\ eventLogs[Len(eventLogs)].event = "stream_finished"
    /\ eventLogs[Len(eventLogs)].seq = seq

\* C13: a GET stream with after_seq = L, for a finished job whose log ends
\* with stream_finished at seq L, does not go to wait for further events.
C13_TailOfFinishedLogCloses ==
    \A h \in DOMAIN gh :
        (gh[h].out = <<>> /\ LogFinishedAt(gh[h].afterSeq)) => gh[h].pc # "wait"

\* C14: the disconnect of the client of a streaming create or of a GET
\* stream changes neither the job record nor the job's cancellation signal;
\* without CancelJob the signal is not triggered while the supervisor runs,
\* and the job ends with the status its supervisor wrote.
C14_JobSurvivesDisconnect ==
    /\ [][(\/ disconnected' # disconnected
           \/ \E h \in DOMAIN gh : gh'[h].gone # gh[h].gone)
              => UNCHANGED <<store, ctxCancelled, cancels, sup>>]_vars
    /\ [](sup.pc # "done" => ~ctxCancelled)
    /\ [](sup.pc = "done" =>
             /\ store = sup.job
             /\ store.status \in {JobStatusSucceeded, JobStatusFailed})

\* both clients have gone and the job has ended
C14_Witness ==
    /\ disconnected
    /\ \E h \in DOMAIN gh : gh[h].gone
    /\ sup.pc = "done"
    /\ store.status = JobStatusSucceeded

\* the supervisor has written status running to the store
EverRunning == sup.pc \notin {"idle", "get", "start_now", "start_write"}

\* C15: the tracker of streamJob never emits job_started twice, and once it
\* has followed the job to a terminal status it has emitted job_started if
\* and only if the stored status was ever running.
C15_JobStartedIffEverRunning ==
    /\ Cardinality(Positions(eventLogs, "job_started", "")) <= 1
    /\ isTerminal(sj.tracker.lastStatus) =>
          (sj.tracker.sentStarted <=> EverRunning)

\* C16: the job RunJob returns with mode = "sync" has a terminal status, and
\* an error when that status is failed or cancelled.
C16_SyncReturnsFinalJob ==
    (createMode = "sync" /\ sup.pc = "done") =>
        /\ isTerminal(sup.ret.status)
        /\ sup.ret.status \in {JobStatusFailed, JobStatusCancelled}
              => sup.ret.error # NoError

\* C17: a CancelJob call that finds the stored job terminal returns success
\* without a store write, whatever its reason.
C17_CancelOfTerminalJobIsNoop ==
    [][\A c \in DOMAIN canc :
          (canc[c].pc = "idle" /\ canc'[c].pc # "idle" /\ isTerminal(store.status))
              => /\ canc'[c].pc = "done" /\ canc'[c].result = "noop"
                 /\ store' = store]_vars

\* a second CancelJob, with another reason, after one that cancelled the job
C17_Witness ==
    /\ canc["c1"].result = "cancelled"
    /\ canc["c2"].result = "noop"
    /\ canc["c2"].reason # canc["c1"].reason
    /\ canc["c2"].job.status = JobStatusCancelled
    /\ store.error.message = canc["c1"].reason

\* the stored job shows a cancellation: its status or one of its steps
ShowsCancelled(job) ==
    /\ job # NoJob
    /\ \/ job.status = JobStatusCancelled
       \/ \E i \in 1..Len(job.steps) : job.steps[i].status = StepExecCancelled

\* C18: the stored job has status cancelled, or a cancelled step, only once
\* a CancelJob call has stored it so; without a CancelJob call it never has.
C18_CancelledOnlyByCancelJob ==
    ShowsCancelled(store) =>
        \E c \in DOMAIN canc : canc[c].pc = "done" /\ canc[c].result = "cancelled"

\* CancelJob stored a cancelled job with a cancelled step, and the
\* supervisor, stopped by the context, has returned
C18_Witness ==
    /\ store # NoJob
    /\ store.status = JobStatusCancelled
    /\ \E i \in 1..Len(store.steps) : store.steps[i].status = StepExecCancelled
    /\ canc["c1"].result = "cancelled"
    /\ sup.pc = "done"

\* step i of the job has, for every id of its depends_on, an earlier step of
\* that id with status success in the given copy of the job
DependenciesSucceeded(job, i) ==
    \A k \in 1..Len(pipeline[i].deps) :
        \E j \in 1..(i - 1) : /\ pipeline[j].id = pipeline[i].deps[k]
                              /\ job.steps[j].status = StepExecSuccess

\* the positions of executeJob from the write of the running step to the
\* end of runStep
StepRunning == {"run_write", "run_ctx", "call", "record_now", "chunk_write",
                "success_now"}

\* the supervisor has found a dependency of its step missing
MissingDependency == sup.code = "missing_dependency"

RunningSteps(job) == {i \in 1..Len(job.steps) : job.steps[i].status = StepExecRunning}

\* C20: a stored step execution is running only while every earlier step that
\* was started has status success and no later step was started, and no
\* stored job has two running step executions.
C20_StepsInDefinitionOrder ==
    store # NoJob =>
        /\ \A i \in RunningSteps(store) :
              /\ \A j \in 1..(i - 1) :
                    store.steps[j].started_at # NoTime
                        => store.steps[j].status = StepExecSuccess
              /\ \A j \in (i + 1)..Len(store.steps) :
                    /\ store.steps[j].started_at = NoTime
                    /\ store.steps[j].status = StepExecPending
        /\ Cardinality(RunningSteps(store)) <= 1

\* the second step is running after the first one succeeded
C20_Witness ==
    /\ store # NoJob
    /\ Len(store.steps) = 2
    /\ store.steps[1].status = StepExecSuccess
    /\ store.steps[2].status = StepExecRunning
    /\ store.steps[1].finished_at <= store.steps[2].started_at

\* the items of the given result that steps 1..n of the pipeline exported
ExportedBefore(items, n) ==
    SelectSeq(items, LAMBDA it : \E i \in 1..n : /\ pipeline[i].export
                                                /\ pipeline[i].id = it.step_id)

RECURSIVE ExportedFrom(_, _)
\* the items steps i.. of the pipeline produced in the supervisor's run, those
\* of the exported steps, in step order
ExportedFrom(outputs, i) ==
    IF i > Len(pipeline) THEN <<>>
    ELSE (IF pipeline[i].export /\ pipeline[i].id \in DOMAIN outputs
          THEN outputs[pipeline[i].id] ELSE <<>>)
         \o ExportedFrom(outputs, i + 1)

\* the supervisor of a rerun with reuse_upstream from step S of a succeeded
\* parent has returned, and no provider call of the rerun failed
RerunReturned ==
    /\ rerun.gen > 0 /\ rerun.reuse /\ rerun.from # ""
    /\ rerun.parentJob.status = JobStatusSucceeded
    /\ sup.pc = "done"
    /\ sup.code \notin {"step_failed", "cancelled"}

\* C21: a rerun with reuse_upstream from step S of a succeeded parent ends
\* with every step before S skipped and never started, every step from S on
\* success, and result.items = the parent's items of the exported steps
\* before S followed by the items the exported steps from S on produced anew.
C21_RerunReusesUpstream ==
    RerunReturned =>
        LET n == findStartIndex(pipeline, rerun.from)
            fresh == ExportedFrom(sup.outputs, n + 1)
        IN /\ store.status = JobStatusSucceeded
           /\ \A i \in 1..n : /\ store.steps[i].status = StepExecSkipped
                              /\ store.steps[i].started_at = NoTime
           /\ \A i \in (n + 1)..Len(pipeline) : store.steps[i].status = StepExecSuccess
           /\ store.items = ExportedBefore(rerun.parentJob.items, n) \o fresh
           /\ \A k \in 1..Len(fresh) : fresh[k].id[1] = JobIDOf(rerun.gen)

\* the items of the result that carry the given step id
ItemsOfStep(items, id) == SelectSeq(items, LAMBDA it : it.step_id = id)

\* C22: in the stored job the items of an exported step with status success
\* are the items the step produced, in the order of their production; items
\* of an earlier step come before those of a later step; no item is of a
\* step with export = false.
C22_ExportedItemsInResult ==
    store # NoJob =>
        /\ \A i \in 1..Len(store.steps) :
              (pipeline[i].export /\ store.steps[i].status = StepExecSuccess) =>
                  /\ pipeline[i].id \in DOMAIN checkpoints
                  /\ ItemsOfStep(store.items, pipeline[i].id) = checkpoints[pipeline[i].id]
        /\ \A k, l \in 1..Len(store.items) :
              k < l => findStepIndex(pipeline, store.items[k].step_id)
                          <= findStepIndex(pipeline, store.items[l].step_id)
        /\ \A k \in 1..Len(store.items) :
              /\ findStepIndex(pipeline, store.items[k].step_id) > 0
              /\ pipeline[findStepIndex(pipeline, store.items[k].step_id)].export

\* a fan-out step over two sources and the step after it, both exported,
\* have succeeded: three items
C22_Witness ==
    /\ store.status = JobStatusSucceeded
    /\ Len(store.steps) = 2
    /\ pipeline[1].export /\ pipeline[2].export
    /\ Len(store.items) = 3
    /\ store.items[1].step_id = pipeline[1].id
    /\ store.items[3].step_id = pipeline[2].id

\* C23: in the stored job the chunk at position k (0-based) of every step
\* execution has index k and the step id of that execution.
C23_ChunkIndexIsPosition ==
    store # NoJob =>
        \A i \in 1..Len(store.steps) :
            \A k \in 1..Len(store.steps[i].chunks) :
                /\ store.steps[i].chunks[k].index = k - 1
                /\ store.steps[i].chunks[k].step_id = store.steps[i].step_id

\* the fan-out step and the per-item step each recorded the chunks of two
\* provider calls
C23_Witness ==
    /\ store # NoJob
    /\ Len(store.steps) = 2
    /\ Len(store.steps[1].chunks) >= 2
    /\ Len(store.steps[2].chunks) >= 2
    /\ sup.call >= 2

\* C24: the stored job has one step execution per step of the definition
\* captured at its creation, in the same order and with the same step ids,
\* also after RegisterPipeline has replaced the registered definition.
C24_StepExecutionsMatchPipeline ==
    store # NoJob =>
        /\ Len(store.steps) = Len(pipeline)
        /\ \A i \in 1..Len(pipeline) : store.steps[i].step_id = pipeline[i].id

\* the definition was replaced by one with another number of steps while
\* the job was queued, and the job has run to its end
C24_Witness ==
    /\ pipelines # pipeline
    /\ Len(pipelines) # Len(pipeline)
    /\ sup.pc = "done"
    /\ sup.job.updated_at > 2
    /\ store.status = JobStatusSucceeded

\* C25: updated_at of the stored job never decreases from one stored
\* snapshot to the next.
C25_UpdatedAtNeverDecreases ==
    [][(store # NoJob /\ store' # NoJob) => store'.updated_at >= store.updated_at]_vars

\* the stored job shows step i with the given status
StoredStepIs(i, status) ==
    /\ store # NoJob
    /\ i <= Len(store.steps)
    /\ store.steps[i].status = status

\* C26: once the stored job shows a step execution with status success, no
\* later stored snapshot shows it running.
C26_SuccessNeverRunningAgain ==
    \A i \in 1..2 :
        [](StoredStepIs(i, StepExecSuccess) => [](~StoredStepIs(i, StepExecRunning)))

\* CancelJob stored the first step as cancelled, from a copy it had read
\* while the step was running; the supervisor, past its cancellation check,
\* has since stored the step as success and the next one as running
C26_Witness ==
    /\ canc["c1"].result = "cancelled"
    /\ canc["c1"].job.steps[1].status = StepExecCancelled
    /\ canc["c1"].job.steps[1].started_at # NoTime
    /\ StoredStepIs(1, StepExecSuccess)
    /\ StoredStepIs(2, StepExecRunning)

----------------------------------------------------------------------------
(* The job store's boundary *)

\* what GetJob returns for every stored job, references followed
StoredJobs(h, js) == [id \in DOMAIN js |-> DeepJob(h, js[id])]

\* C27: no mutable state is shared across the job store's boundary: an
\* assignment to any part of a job the caller holds, whether GetJob or
\* ListJobs returned it or the caller passed it to CreateJob or UpdateJob,
\* leaves what GetJob returns for every stored job as it was.
C27_NoStateSharedWithStore ==
    [][caller'.op = "mutate" => StoredJobs(heap', jobs') = StoredJobs(heap, jobs)]_vars

\* C28: CreateJob with the id of a stored job returns the already-exists
\* error and leaves the stored record as it was; UpdateJob with an id the
\* store has no job of returns the not-found error and creates no record.
C28_CreateAndUpdateErrors ==
    [][ /\ (caller'.op = "create" /\ caller'.id \in DOMAIN jobs)
            => (/\ caller'.err = ErrJobExists
                /\ StoredJobs(heap', jobs') = StoredJobs(heap, jobs))
        /\ (caller'.op = "update" /\ caller'.id \notin DOMAIN jobs)
            => (/\ caller'.err = ErrJobNotFound
                /\ DOMAIN jobs' = DOMAIN jobs) ]_vars

\* CreateJob has been refused for a stored job whose record differs from the
\* job passed
C28_Witness ==
    /\ caller.op = "create"
    /\ caller.err = ErrJobExists
    /\ \E k \in 1..Len(caller.held) :
          /\ caller.held[k].id = caller.id
          /\ DeepJob(heap, caller.held[k]) # DeepJob(heap, jobs[caller.id])

----------------------------------------------------------------------------
(* The checkpoint store *)

\* what LoadCheckpoints returns for every job
AllCheckpoints(h, cps) == [j \in JobIDs |-> LoadResult(h, cps, j)]

\* C29: the checkpoints are a map keyed by job and step.  SaveCheckpoint
\* with no items changes nothing; after SaveCheckpoint with items
\* LoadCheckpoints of the job returns those items for the step;
\* ClearCheckpoints of a job leaves LoadCheckpoints of it nothing to return
\* and leaves the other jobs' checkpoints and every job record as they were.
C29_CheckpointsByJobAndStep ==
    [][ /\ (caller'.op = "save" /\ caller'.items = Nil)
            => AllCheckpoints(heap', jobCheckpoints') = AllCheckpoints(heap, jobCheckpoints)
        /\ (caller'.op = "save" /\ caller'.items # Nil)
            => LET l == LoadResult(heap', jobCheckpoints', caller'.id) IN
               /\ ~l.nil
               /\ caller'.step \in DOMAIN l.m
               /\ l.m[caller'.step] = DeepItems(heap', caller'.items)
        /\ caller'.op = "clear"
            => (/\ LoadResult(heap', jobCheckpoints', caller'.id).nil
                /\ \A j \in JobIDs \ {caller'.id} :
                      LoadResult(heap', jobCheckpoints', j) = LoadResult(heap, jobCheckpoints, j)
                /\ StoredJobs(heap', jobs') = StoredJobs(heap, jobs)) ]_vars

\* ClearCheckpoints of a job whose checkpoints the caller had loaded before;
\* another job has checkpoints
C29_Witness ==
    /\ caller.op = "clear"
    /\ caller.loaded.job = caller.id
    /\ ~caller.loaded.nil
    /\ \E j \in JobIDs \ {caller.id} : ~LoadResult(heap, jobCheckpoints, j).nil

----------------------------------------------------------------------------
(* The provider registry *)

\* C30: Resolve never changes a registered profile: whatever overrides the
\* resolved step carries, the registry's profiles are after Resolve what they
\* were before it.
C30_ResolveLeavesProfiles ==
    [][caller'.op = "resolve"
          => StoredProfiles(heap', profiles') = StoredProfiles(heap, profiles)]_vars

----------------------------------------------------------------------------
(* The log of a streaming create *)

\* an event without its seq
Unstamped(evt) == [evt EXCEPT !.seq = 0]

\* C31: the log of a job created by a streaming create starts with job_queued
\* at seq 1, the response is the log event for event while the client
\* reads, and every event createJob receives is the next one of the engine's
\* channel and is logged, as it came, with the seq after the log's last.
C31_QueuedFirstThenChannelOrder ==
    /\ [](/\ eventLogs # <<>> =>
               (eventLogs[1].event = "job_queued" /\ eventLogs[1].seq = 1)
          /\ Len(cjOut) <= Len(eventLogs)
          /\ \A i \in 1..Len(cjOut) : cjOut[i] = eventLogs[i] /\ cjOut[i].seq = i)
    /\ [][/\ (cj.pc = "recv" /\ cj'.pc = "append") => cj'.cur = Head(sj.queue)
          /\ (cj.pc = "append" /\ cj'.pc # "append") =>
                (/\ Len(eventLogs') = Len(eventLogs) + 1
                 /\ Len(eventLogs) >= 1
                 /\ SubSeq(eventLogs', 1, Len(eventLogs)) = eventLogs
                 /\ Unstamped(eventLogs'[Len(eventLogs')]) = Unstamped(cj.cur)
                 /\ eventLogs'[Len(eventLogs')].seq = Len(eventLogs) + 1)]_vars

\* the client has read the whole stream of a finished job, more than
\* job_queued and stream_finished
C31_Witness ==
    /\ cj.pc = "done"
    /\ ~disconnected
    /\ Len(cjOut) >= 4
    /\ cjOut[Len(cjOut)].event = "stream_finished"

----------------------------------------------------------------------------
(* The items of a step *)

\* the outputs of the last dependency of the step the supervisor runs
BaseOfStep ==
    LET deps == CurStep.deps IN
    IF deps # <<>> /\ deps[Len(deps)] \in DOMAIN sup.outputs
    THEN sup.outputs[deps[Len(deps)]] ELSE <<>>

\* the step's items are the one item of a single step, made by one call
OneItem == Len(sup.items) = 1 /\ sup.call = 1 /\ sup.items[1].shard = <<>>

\* the step's items are those of a fan-out over the sources, or the one of
\* a single step when there are no sources
ItemPerSource ==
    IF nSources = 0 THEN OneItem
    ELSE /\ Len(sup.items) = nSources
         /\ \A i \in 1..nSources : sup.items[i].shard = <<CurStep.id, i - 1>>

----------------------------------------------------------------------------
(* The default pipeline *)

\* no CancelJob call has touched the job
NotCancelled == \A c \in DOMAIN canc : canc[c].pc = "idle" \/ canc[c].result = "noop"

----------------------------------------------------------------------------
(* Every job ends *)

\* C34: under fair scheduling, with providers that return, the job RunJob
\* stored gets a terminal stored status, from whatever state it is in and
\* however the CancelJob call is interleaved with the supervisor.
C34_EveryJobEnds == (store # NoJob) ~> isTerminal(store.status)

----------------------------------------------------------------------------
(* What the store keeps of a job's output *)

\* C35: from one stored record of the job to the next, whoever writes it
\* (executeJob, recordChunks, failStep or CancelJob), the number of result
\* items does not decrease and no step execution loses chunks.
C35_OutputNeverShrinks ==
    [][ (store # NoJob /\ store' # NoJob) =>
            /\ Len(store'.items) >= Len(store.items)
            /\ \A i \in 1..Len(store.steps) :
                   /\ i <= Len(store'.steps)
                   /\ Len(store'.steps[i].chunks) >= Len(store.steps[i].chunks) ]_vars

----------------------------------------------------------------------------
(* Several GET streams of one job *)

TerminalEventNames == {"job_completed", "job_failed", "job_cancelled"}

\* the positions in events of the events with one of the given names
Named(events, names) == {k \in 1..Len(events) : events[k].event \in names}

\* the events that report a transition of the job or of a step
Transitions(events) ==
    {k \in 1..Len(events) :
        events[k].event \in {"job_started", "job_status", "stream_finished"}
                             \cup TerminalEventNames
                             \cup {"step_started", "step_completed",
                                   "step_failed", "step_cancelled"}}

\* C36: with several GET streams of one job, the job's event log has at
\* most one job_started, at most one terminal job event and at most one
\* stream_finished, a log with stream_finished has its terminal job event,
\* and no client is sent the same transition of the job or of a step as two
\* events.
C36_OneEventPerTransition ==
    /\ Cardinality(Named(eventLogs, {"job_started"})) <= 1
    /\ Cardinality(Named(eventLogs, TerminalEventNames)) <= 1
    /\ Cardinality(Named(eventLogs, {"stream_finished"})) <= 1
    /\ (Named(eventLogs, {"stream_finished"}) # {} =>
            Named(eventLogs, TerminalEventNames) # {})
    /\ \A h \in DOMAIN gh :
          \A j, k \in Transitions(gh[h].out) :
             (/\ gh[h].out[j].event = gh[h].out[k].event
              /\ gh[h].out[j].status = gh[h].out[k].status
              /\ gh[h].out[j].step = gh[h].out[k].step) => j = k

----------------------------------------------------------------------------
(* One tracker over growing snapshots *)

\* the provider_chunk events of the step among the events
ChunkEvents(events, step) ==
    SelectSeq(events, LAMBDA e : e.event = "provider_chunk" /\ e.step = step)

ItemEvents(events) == SelectSeq(events, LAMBDA e : e.event = "item_completed")

\* C37: the provider_chunk events of all Diff calls of one tracker are, for
\* each step, the chunks of that step in the last snapshot given, each once
\* and in index order; the item_completed events are the result items of
\* that snapshot, each once and in order; and Diff of the snapshot it was
\* last given returns no event.
C37_ChunksAndItemsOnce ==
    /\ \A i \in 1..Len(sup.job.steps) :
          ChunkEvents(cjOut, sup.job.steps[i].step_id) =
             [k \in 1..Len(sup.job.steps[i].chunks) |->
                 Event("provider_chunk", "", sup.job.steps[i].step_id,
                       sup.job.steps[i].chunks[k].index)]
    /\ ItemEvents(cjOut) =
          [k \in 1..Len(sup.job.items) |->
              Event("item_completed", "", sup.job.items[k].step_id, k - 1)]
    /\ (store # NoJob /\ store = sup.job => Diff(sj.tracker, store) = <<>>)

\* chunks and items came in over several Diff calls (a chunk of step A, then
\* an item, then the next chunk of A), and the last call was given the
\* snapshot of the call before it
C37_Witness ==
    /\ store # NoJob
    /\ store = sup.job
    /\ sj.queue = <<>>
    /\ Len(ItemEvents(cjOut)) = MaxGrowth
    /\ \E i, j, k \in 1..Len(cjOut) :
          /\ i < j /\ j < k
          /\ cjOut[i].event = "provider_chunk" /\ cjOut[i].step = "A"
          /\ cjOut[j].event = "item_completed"
          /\ cjOut[k].event = "provider_chunk" /\ cjOut[k].step = "A"

----------------------------------------------------------------------------
(* A rerun of a rerun *)

\* the job is a rerun with reuse_upstream from a step S that has steps
\* before it, its parent succeeded and was itself such a rerun from S (it
\* skipped the steps before S), and executeJob has returned without a
\* provider having failed
SecondRerunReturned ==
    /\ RerunReturned
    /\ rerun.gen >= 2
    /\ findStartIndex(pipeline, rerun.from) >= 1
    /\ \A i \in 1..findStartIndex(pipeline, rerun.from) :
          rerun.parentJob.steps[i].status = StepExecSkipped

\* C38: a succeeded rerun has, under its own id, a checkpoint of every step
\* it skipped; and a rerun of it with reuse_upstream from the same step
\* marks the steps before that step skipped, runs the others and succeeds.
C38_RerunOfRerunSucceeds ==
    /\ (sup.pc = "done" /\ rerun.gen >= 1 /\ store.status = JobStatusSucceeded) =>
            \A i \in 1..Len(store.steps) :
                store.steps[i].status = StepExecSkipped =>
                    pipeline[i].id \in DOMAIN checkpoints
    /\ SecondRerunReturned =>
            /\ store.status = JobStatusSucceeded
            /\ \A i \in 1..Len(pipeline) :
                  store.steps[i].status =
                     IF i <= findStartIndex(pipeline, rerun.from)
                     THEN StepExecSkipped ELSE StepExecSuccess

----------------------------------------------------------------------------
(* The end of streamJob *)

\* C39: streamJob is never left at a send on its channel once createJob,
\* the only receiver, has returned; createJob does not take up receiving
\* again, so a streamJob in that state stays blocked and never closes the
\* channel.
C39_StreamJobNotLeftSending == ~(cj.pc = "done" /\ sj.pc = "send")

====
